---- MODULE Spec2Model ----
(***************************************************************************)
(* OS4P techno-economic calculator (omaudhuit/OS4P).                       *)
(*                                                                         *)
(* The model covers the two calculate_os4p variants (src/OS4P_dashboard.py *)
(* and src/OS4P.py) and calculate_innovation_fund_score.                   *)
(*                                                                         *)
(* Numbers.  Python computes in binary floating point; the model computes  *)
(* in exact rationals <<numerator, denominator>> (denominator > 0, lowest  *)
(* terms), so rounding error of the float operations is not modelled.      *)
(* float('inf') is the pair <<1, 0>>.  A Python exception is an outcome    *)
(* string ("ZeroDivisionError", "KeyError"); a normal return is "ok".      *)
(* The input values are small so that every intermediate product stays in  *)
(* TLC's 32-bit integers: interest rates are multiples of 600 % so that the*)
(* monthly rate interest_rate/100/12 is 1/2 or 1 and (1+r)^12 is exact.    *)
(***************************************************************************)
EXTENDS Integers, Sequences, FiniteSets, TLC

VARIABLES pc, params, last, memo, frames, dcf, sens, scoring, amort, session

vars == <<pc, params, last, memo, frames, dcf, sens, scoring, amort, session>>

\* the variables of the sensitivity analysis, the scoring tab, the
\* amortization simulation and the video gate
pages == <<sens, scoring, amort, session>>

\* the variables of the concurrent calls, of the cash-flow section and of the
\* other page sections, left alone by a single call
aux == <<frames, dcf, pages>>

(***************************************************************************)
(* Exact rational arithmetic (the model of Python's float operators).      *)
(***************************************************************************)
Abs(x) == IF x < 0 THEN -x ELSE x

RECURSIVE GCD(_, _)
GCD(a, b) == IF b = 0 THEN a ELSE GCD(b, a % b)

RNorm(n, d) ==
    LET s == IF d < 0 THEN -1 ELSE 1
        g == GCD(Abs(n), Abs(d))
    IN  IF n = 0 THEN <<0, 1>> ELSE <<(s * n) \div g, (s * d) \div g>>

R(n) == <<n, 1>>

Frac(n, d) == RNorm(n, d)

Inf == <<1, 0>>

RNeg(a) == <<-a[1], a[2]>>

RAdd(a, b) ==
    LET g == GCD(a[2], b[2])
    IN  RNorm(a[1] * (b[2] \div g) + b[1] * (a[2] \div g), (a[2] \div g) * b[2])

RSub(a, b) == RAdd(a, RNeg(b))

RMul(a, b) ==
    LET g1 == GCD(Abs(a[1]), b[2])
        g2 == GCD(Abs(b[1]), a[2])
    IN  IF a[1] = 0 \/ b[1] = 0 THEN <<0, 1>>
        ELSE <<(a[1] \div g1) * (b[1] \div g2), (a[2] \div g2) * (b[2] \div g1)>>

\* a / b for b # 0 (the callers model Python's ZeroDivisionError themselves)
RDiv(a, b) == RMul(a, IF b[1] < 0 THEN <<-b[2], -b[1]>> ELSE <<b[2], b[1]>>)

\* a <= b by cross-multiplication, the factors common to the two
\* denominators and to the two numerators taken out first
RLe(a, b) ==
    LET g0 == GCD(a[2], b[2])
        g == IF g0 = 0 THEN 1 ELSE g0
        h0 == GCD(Abs(a[1]), Abs(b[1]))
        h == IF h0 = 0 THEN 1 ELSE h0
    IN  (a[1] \div h) * (b[2] \div g) <= (b[1] \div h) * (a[2] \div g)

RLt(a, b) ==
    LET g0 == GCD(a[2], b[2])
        g == IF g0 = 0 THEN 1 ELSE g0
        h0 == GCD(Abs(a[1]), Abs(b[1]))
        h == IF h0 = 0 THEN 1 ELSE h0
    IN  (a[1] \div h) * (b[2] \div g) < (b[1] \div h) * (a[2] \div g)

RIsZero(a) == a[1] = 0 /\ a[2] # 0

RMax(a, b) == IF RLt(a, b) THEN b ELSE a

RECURSIVE RPowNat(_, _)
RPowNat(a, k) == IF k = 0 THEN R(1) ELSE RMul(a, RPowNat(a, k - 1))

\* a ** k for an integer k and a # 0 when k < 0
RPow(a, k) == IF k >= 0 THEN RPowNat(a, k) ELSE RDiv(R(1), RPowNat(a, -k))

\* floor of a rational
RFloor(a) == IF a[1] >= 0 THEN a[1] \div a[2] ELSE -((-a[1] + a[2] - 1) \div a[2])

\* Python 3 round(x): to the nearest integer, a tie goes to the even one
PyRound(a) ==
    LET f    == RFloor(a)
        frac == RSub(a, R(f))
    IN  IF RLt(frac, Frac(1, 2)) THEN f
        ELSE IF RLt(Frac(1, 2), frac) THEN f + 1
        ELSE IF f % 2 = 0 THEN f ELSE f + 1

(***************************************************************************)
(* calculate_innovation_fund_score  (src/OS4P_dashboard.py 29-44)          *)
(***************************************************************************)
ScoreThreshold == 2000

ScoreMax == 12

\* the same score with the half points truncated instead of rounded
calculate_innovation_fund_score_floor(cost_efficiency_ratio) ==
    IF RLe(cost_efficiency_ratio, R(ScoreThreshold))
    THEN LET score   == RSub(R(ScoreMax),
                             RMul(R(ScoreMax), RDiv(cost_efficiency_ratio, R(ScoreThreshold))))
             rounded == RDiv(R(RFloor(RMul(score, R(2)))), R(2))
         IN  RMax(R(0), rounded)
    ELSE R(0)

calculate_innovation_fund_score(cost_efficiency_ratio) ==
    IF RLe(cost_efficiency_ratio, R(ScoreThreshold))
    THEN LET score   == RSub(R(ScoreMax),
                             RMul(R(ScoreMax), RDiv(cost_efficiency_ratio, R(ScoreThreshold))))
             rounded == RDiv(R(PyRound(RMul(score, R(2)))), R(2))
         IN  RMax(R(0), rounded)
    ELSE R(0)

(***************************************************************************)
(* calculate_os4p(params)  (src/OS4P_dashboard.py 46-191)                  *)
(*                                                                         *)
(* params is a Python dict: a function from key strings to numbers.  The   *)
(* result is [outcome, result]: the exception raised first in program      *)
(* order, or "ok" with the returned record.                                *)
(***************************************************************************)
NoResult == [none |-> TRUE]

Raise(e) == [outcome |-> e, result |-> NoResult]

Return(r) == [outcome |-> "ok", result |-> r]

\* params[...] subscripts evaluated before the first division (lines 48-85)
KeysReadFirst ==
    {"num_outposts", "large_patrol_fuel", "rib_fuel", "small_patrol_fuel",
     "hours_per_day_base", "interest_rate", "loan_years", "sla_premium",
     "operating_days_per_year", "co2_factor", "maintenance_emissions",
     "microgrid_capex", "drones_capex", "maintenance_opex",
     "communications_opex", "security_opex", "genset_fuel_per_hour",
     "genset_operating_hours", "num_ms240_gd_vehicles",
     "ms240_gd_fuel_consumption", "num_large_patrol_boats", "num_rib_boats",
     "num_small_patrol_boats", "lifetime_years"}

\* params.get(key, default)
Get(p, key, default) == IF key \in DOMAIN p THEN p[key] ELSE default

GrantCoverage == Frac(60, 100)

PilotMarkup == Frac(125, 100)

\* Emissions with the generator count left out of the generator fuel
Emissions_one_generator(p) ==
    LET diesel_generator_count == R(1)
        genset_fuel_per_day ==
            RMul(RMul(p["genset_fuel_per_hour"], p["genset_operating_hours"]),
                 diesel_generator_count)
        ms240_gd_fuel_per_day ==
            RMul(RMul(p["num_ms240_gd_vehicles"], p["ms240_gd_fuel_consumption"]),
                 p["hours_per_day_base"])
        boats ==
            RAdd(RAdd(RMul(p["num_large_patrol_boats"], p["large_patrol_fuel"]),
                      RMul(p["num_rib_boats"], p["rib_fuel"])),
                 RMul(p["num_small_patrol_boats"], p["small_patrol_fuel"]))
        daily_fuel_consumption ==
            RAdd(RAdd(RMul(boats, p["hours_per_day_base"]), genset_fuel_per_day),
                 ms240_gd_fuel_per_day)
        annual_fuel_consumption ==
            RMul(daily_fuel_consumption, p["operating_days_per_year"])
        manned_co2_emissions == RMul(annual_fuel_consumption, p["co2_factor"])
        autonomous_co2_emissions == p["maintenance_emissions"]
        ghg_abs_avoidance_per_outpost ==
            RDiv(RSub(manned_co2_emissions, autonomous_co2_emissions), R(1000))
        ghg_abs_avoidance_all_outposts ==
            RMul(ghg_abs_avoidance_per_outpost, p["num_outposts"])
        ghg_abs_avoidance_lifetime ==
            RMul(ghg_abs_avoidance_all_outposts, p["lifetime_years"])
        ghg_rel_avoidance ==
            IF RLt(R(0), manned_co2_emissions)
            THEN RMul(RDiv(RSub(manned_co2_emissions, autonomous_co2_emissions),
                           manned_co2_emissions), R(100))
            ELSE R(0)
    IN  [daily_fuel_consumption |-> daily_fuel_consumption,
         manned_co2_emissions |-> manned_co2_emissions,
         autonomous_co2_emissions |-> autonomous_co2_emissions,
         ghg_abs_avoidance_per_outpost |-> ghg_abs_avoidance_per_outpost,
         ghg_abs_avoidance_all_outposts |-> ghg_abs_avoidance_all_outposts,
         ghg_abs_avoidance_lifetime |-> ghg_abs_avoidance_lifetime,
         ghg_rel_avoidance |-> ghg_rel_avoidance]

\* Emissions with the relative avoidance guarded by manned_co2_emissions != 0
Emissions_nonzero_guard(p) ==
    LET diesel_generator_count == Get(p, "number_diesel_generators", R(1))
        genset_fuel_per_day ==
            RMul(RMul(p["genset_fuel_per_hour"], p["genset_operating_hours"]),
                 diesel_generator_count)
        ms240_gd_fuel_per_day ==
            RMul(RMul(p["num_ms240_gd_vehicles"], p["ms240_gd_fuel_consumption"]),
                 p["hours_per_day_base"])
        boats ==
            RAdd(RAdd(RMul(p["num_large_patrol_boats"], p["large_patrol_fuel"]),
                      RMul(p["num_rib_boats"], p["rib_fuel"])),
                 RMul(p["num_small_patrol_boats"], p["small_patrol_fuel"]))
        daily_fuel_consumption ==
            RAdd(RAdd(RMul(boats, p["hours_per_day_base"]), genset_fuel_per_day),
                 ms240_gd_fuel_per_day)
        annual_fuel_consumption ==
            RMul(daily_fuel_consumption, p["operating_days_per_year"])
        manned_co2_emissions == RMul(annual_fuel_consumption, p["co2_factor"])
        autonomous_co2_emissions == p["maintenance_emissions"]
        ghg_abs_avoidance_per_outpost ==
            RDiv(RSub(manned_co2_emissions, autonomous_co2_emissions), R(1000))
        ghg_abs_avoidance_all_outposts ==
            RMul(ghg_abs_avoidance_per_outpost, p["num_outposts"])
        ghg_abs_avoidance_lifetime ==
            RMul(ghg_abs_avoidance_all_outposts, p["lifetime_years"])
        ghg_rel_avoidance ==
            IF ~RIsZero(manned_co2_emissions)
            THEN RMul(RDiv(RSub(manned_co2_emissions, autonomous_co2_emissions),
                           manned_co2_emissions), R(100))
            ELSE R(0)
    IN  [daily_fuel_consumption |-> daily_fuel_consumption,
         manned_co2_emissions |-> manned_co2_emissions,
         autonomous_co2_emissions |-> autonomous_co2_emissions,
         ghg_abs_avoidance_per_outpost |-> ghg_abs_avoidance_per_outpost,
         ghg_abs_avoidance_all_outposts |-> ghg_abs_avoidance_all_outposts,
         ghg_abs_avoidance_lifetime |-> ghg_abs_avoidance_lifetime,
         ghg_rel_avoidance |-> ghg_rel_avoidance]

\* the metrics up to line 107: no division by an input, no exception
Emissions(p) ==
    LET diesel_generator_count == Get(p, "number_diesel_generators", R(1))
        genset_fuel_per_day ==
            RMul(RMul(p["genset_fuel_per_hour"], p["genset_operating_hours"]),
                 diesel_generator_count)
        ms240_gd_fuel_per_day ==
            RMul(RMul(p["num_ms240_gd_vehicles"], p["ms240_gd_fuel_consumption"]),
                 p["hours_per_day_base"])
        boats ==
            RAdd(RAdd(RMul(p["num_large_patrol_boats"], p["large_patrol_fuel"]),
                      RMul(p["num_rib_boats"], p["rib_fuel"])),
                 RMul(p["num_small_patrol_boats"], p["small_patrol_fuel"]))
        daily_fuel_consumption ==
            RAdd(RAdd(RMul(boats, p["hours_per_day_base"]), genset_fuel_per_day),
                 ms240_gd_fuel_per_day)
        annual_fuel_consumption ==
            RMul(daily_fuel_consumption, p["operating_days_per_year"])
        manned_co2_emissions == RMul(annual_fuel_consumption, p["co2_factor"])
        autonomous_co2_emissions == p["maintenance_emissions"]
        ghg_abs_avoidance_per_outpost ==
            RDiv(RSub(manned_co2_emissions, autonomous_co2_emissions), R(1000))
        ghg_abs_avoidance_all_outposts ==
            RMul(ghg_abs_avoidance_per_outpost, p["num_outposts"])
        ghg_abs_avoidance_lifetime ==
            RMul(ghg_abs_avoidance_all_outposts, p["lifetime_years"])
        ghg_rel_avoidance ==
            IF RLt(R(0), manned_co2_emissions)
            THEN RMul(RDiv(RSub(manned_co2_emissions, autonomous_co2_emissions),
                           manned_co2_emissions), R(100))
            ELSE R(0)
    IN  [daily_fuel_consumption |-> daily_fuel_consumption,
         manned_co2_emissions |-> manned_co2_emissions,
         autonomous_co2_emissions |-> autonomous_co2_emissions,
         ghg_abs_avoidance_per_outpost |-> ghg_abs_avoidance_per_outpost,
         ghg_abs_avoidance_all_outposts |-> ghg_abs_avoidance_all_outposts,
         ghg_abs_avoidance_lifetime |-> ghg_abs_avoidance_lifetime,
         ghg_rel_avoidance |-> ghg_rel_avoidance]

\* Costs with the annual OPEX left at its per-outpost value
Costs_opex_not_scaled(p) ==
    LET total_capex_per_outpost == RAdd(p["microgrid_capex"], p["drones_capex"])
        total_capex == RMul(total_capex_per_outpost, p["num_outposts"])
        annual_opex_per_outpost ==
            RAdd(RAdd(p["maintenance_opex"], p["communications_opex"]),
                 p["security_opex"])
        annual_opex == annual_opex_per_outpost
        lifetime_opex == RMul(annual_opex, p["loan_years"])
        pilot_markup == RMul(total_capex, PilotMarkup)
        non_unit_cost_pct == Get(p, "non_unit_cost_pct", R(0))
        non_unit_cost == RMul(pilot_markup, RDiv(non_unit_cost_pct, R(100)))
        total_pilot_cost == RAdd(pilot_markup, non_unit_cost)
        total_grant == RMul(GrantCoverage, total_pilot_cost)
        debt == RSub(total_pilot_cost, total_grant)
    IN  [total_capex_per_outpost |-> total_capex_per_outpost,
         total_capex |-> total_capex,
         annual_opex_per_outpost |-> annual_opex_per_outpost,
         annual_opex |-> annual_opex,
         lifetime_opex |-> lifetime_opex,
         pilot_markup |-> pilot_markup,
         non_unit_cost |-> non_unit_cost,
         total_pilot_cost |-> total_pilot_cost,
         total_grant |-> total_grant,
         debt |-> debt]

\* Costs with the grant taken on the marked-up CAPEX without the overhead
Costs_grant_on_markup(p) ==
    LET total_capex_per_outpost == RAdd(p["microgrid_capex"], p["drones_capex"])
        total_capex == RMul(total_capex_per_outpost, p["num_outposts"])
        annual_opex_per_outpost ==
            RAdd(RAdd(p["maintenance_opex"], p["communications_opex"]),
                 p["security_opex"])
        annual_opex == RMul(annual_opex_per_outpost, p["num_outposts"])
        lifetime_opex == RMul(annual_opex, p["loan_years"])
        pilot_markup == RMul(total_capex, PilotMarkup)
        non_unit_cost_pct == Get(p, "non_unit_cost_pct", R(0))
        non_unit_cost == RMul(pilot_markup, RDiv(non_unit_cost_pct, R(100)))
        total_pilot_cost == RAdd(pilot_markup, non_unit_cost)
        total_grant == RMul(GrantCoverage, pilot_markup)
        debt == RSub(total_pilot_cost, total_grant)
    IN  [total_capex_per_outpost |-> total_capex_per_outpost,
         total_capex |-> total_capex,
         annual_opex_per_outpost |-> annual_opex_per_outpost,
         annual_opex |-> annual_opex,
         lifetime_opex |-> lifetime_opex,
         pilot_markup |-> pilot_markup,
         non_unit_cost |-> non_unit_cost,
         total_pilot_cost |-> total_pilot_cost,
         total_grant |-> total_grant,
         debt |-> debt]

\* Costs with the drones bought once for all outposts
Costs_drones_not_scaled(p) ==
    LET total_capex_per_outpost == RAdd(p["microgrid_capex"], p["drones_capex"])
        total_capex ==
            RAdd(RMul(p["microgrid_capex"], p["num_outposts"]), p["drones_capex"])
        annual_opex_per_outpost ==
            RAdd(RAdd(p["maintenance_opex"], p["communications_opex"]),
                 p["security_opex"])
        annual_opex == RMul(annual_opex_per_outpost, p["num_outposts"])
        lifetime_opex == RMul(annual_opex, p["loan_years"])
        pilot_markup == RMul(total_capex, PilotMarkup)
        non_unit_cost_pct == Get(p, "non_unit_cost_pct", R(0))
        non_unit_cost == RMul(pilot_markup, RDiv(non_unit_cost_pct, R(100)))
        total_pilot_cost == RAdd(pilot_markup, non_unit_cost)
        total_grant == RMul(GrantCoverage, total_pilot_cost)
        debt == RSub(total_pilot_cost, total_grant)
    IN  [total_capex_per_outpost |-> total_capex_per_outpost,
         total_capex |-> total_capex,
         annual_opex_per_outpost |-> annual_opex_per_outpost,
         annual_opex |-> annual_opex,
         lifetime_opex |-> lifetime_opex,
         pilot_markup |-> pilot_markup,
         non_unit_cost |-> non_unit_cost,
         total_pilot_cost |-> total_pilot_cost,
         total_grant |-> total_grant,
         debt |-> debt]

Costs(p) ==
    LET total_capex_per_outpost == RAdd(p["microgrid_capex"], p["drones_capex"])
        total_capex == RMul(total_capex_per_outpost, p["num_outposts"])
        annual_opex_per_outpost ==
            RAdd(RAdd(p["maintenance_opex"], p["communications_opex"]),
                 p["security_opex"])
        annual_opex == RMul(annual_opex_per_outpost, p["num_outposts"])
        lifetime_opex == RMul(annual_opex, p["loan_years"])
        pilot_markup == RMul(total_capex, PilotMarkup)
        non_unit_cost_pct == Get(p, "non_unit_cost_pct", R(0))
        non_unit_cost == RMul(pilot_markup, RDiv(non_unit_cost_pct, R(100)))
        total_pilot_cost == RAdd(pilot_markup, non_unit_cost)
        total_grant == RMul(GrantCoverage, total_pilot_cost)
        debt == RSub(total_pilot_cost, total_grant)
    IN  [total_capex_per_outpost |-> total_capex_per_outpost,
         total_capex |-> total_capex,
         annual_opex_per_outpost |-> annual_opex_per_outpost,
         annual_opex |-> annual_opex,
         lifetime_opex |-> lifetime_opex,
         pilot_markup |-> pilot_markup,
         non_unit_cost |-> non_unit_cost,
         total_pilot_cost |-> total_pilot_cost,
         total_grant |-> total_grant,
         debt |-> debt]

\* line 109-110
MonthlyRate(interest_rate) == RDiv(RDiv(interest_rate, R(100)), R(12))

NumMonths(loan_years) == RMul(loan_years, R(12))

\* the denominator of line 111: 1 - (1 + monthly_interest_rate) ** -num_months
AmortDenominator(monthly_interest_rate, num_months) ==
    RSub(R(1), RPow(RAdd(R(1), monthly_interest_rate), -num_months[1]))

\* line 111 with the exponent's sign lost
MonthlyPayment_growth(debt, monthly_interest_rate, num_months) ==
    LET den == RSub(R(1), RPow(RAdd(R(1), monthly_interest_rate), num_months[1]))
    IN  IF RIsZero(den) THEN Raise("ZeroDivisionError")
        ELSE Return(RDiv(RMul(debt, monthly_interest_rate), den))

\* line 111: a float division, ZeroDivisionError when the denominator is 0
MonthlyPayment(debt, monthly_interest_rate, num_months) ==
    IF RIsZero(AmortDenominator(monthly_interest_rate, num_months))
    THEN Raise("ZeroDivisionError")
    ELSE Return(RDiv(RMul(debt, monthly_interest_rate),
                     AmortDenominator(monthly_interest_rate, num_months)))

\* lines 133-139
CapitalRecoveryFactor(r, n) ==
    LET growth == RPow(RAdd(R(1), r), n[1])
    IN  IF ~RIsZero(RSub(growth, R(1)))
        THEN RDiv(RMul(r, growth), RSub(growth, R(1)))
        ELSE R(0)

MetricFields ==
    {"ghg_abs_avoidance_per_outpost", "ghg_abs_avoidance_all_outposts",
     "ghg_abs_avoidance_lifetime", "ghg_rel_avoidance", "daily_fuel_consumption",
     "manned_co2_emissions", "autonomous_co2_emissions", "total_capex",
     "total_capex_per_outpost", "annual_opex", "annual_opex_per_outpost",
     "lifetime_opex", "tco", "tco_per_outpost", "monthly_debt_payment",
     "monthly_fee_unit", "annual_fee_unit", "lifetime_fee_total",
     "cost_efficiency_per_ton", "cost_efficiency_lifetime",
     "innovation_fund_score", "innovation_fund_score_lifetime", "pilot_markup",
     "non_unit_cost", "total_pilot_cost", "total_grant", "debt",
     "lifetime_debt_payment", "lcoe", "payback_years", "capex_breakdown",
     "opex_breakdown", "co2_factors"}

\* lines 112-189, reached once monthly_debt_payment is computed and
\* num_outposts and annual_energy_production are known to be non-zero
ResultRecord(p, monthly_debt_payment) ==
    LET e == Emissions(p)
        c == Costs(p)
        num_outposts == p["num_outposts"]
        loan_years == p["loan_years"]
        num_months == NumMonths(loan_years)
        lifetime_debt_payment == RMul(monthly_debt_payment, num_months)
        sla_multiplier == RAdd(R(1), RDiv(p["sla_premium"], R(100)))
        monthly_fee_unit ==
            RMul(RAdd(RDiv(monthly_debt_payment, num_outposts),
                      RDiv(c.annual_opex_per_outpost, R(12))), sla_multiplier)
        annual_fee_unit == RMul(monthly_fee_unit, R(12))
        lifetime_fee_total == RMul(RMul(annual_fee_unit, num_outposts), loan_years)
        payback_years ==
            IF RLt(R(0), RMul(annual_fee_unit, num_outposts))
            THEN RDiv(lifetime_debt_payment, RMul(annual_fee_unit, num_outposts))
            ELSE Inf
        cost_efficiency_per_ton ==
            IF RLt(R(0), e.ghg_abs_avoidance_all_outposts)
            THEN RDiv(c.total_grant, e.ghg_abs_avoidance_all_outposts)
            ELSE Inf
        cost_efficiency_lifetime ==
            IF RLt(R(0), e.ghg_abs_avoidance_lifetime)
            THEN RDiv(c.total_grant, e.ghg_abs_avoidance_lifetime)
            ELSE Inf
        tco == RAdd(c.total_capex, c.lifetime_opex)
        annualized_capex ==
            RMul(c.total_capex_per_outpost,
                 CapitalRecoveryFactor(RDiv(p["interest_rate"], R(100)), loan_years))
    IN  [ghg_abs_avoidance_per_outpost |-> e.ghg_abs_avoidance_per_outpost,
         ghg_abs_avoidance_all_outposts |-> e.ghg_abs_avoidance_all_outposts,
         ghg_abs_avoidance_lifetime |-> e.ghg_abs_avoidance_lifetime,
         ghg_rel_avoidance |-> e.ghg_rel_avoidance,
         daily_fuel_consumption |-> e.daily_fuel_consumption,
         manned_co2_emissions |-> e.manned_co2_emissions,
         autonomous_co2_emissions |-> e.autonomous_co2_emissions,
         total_capex |-> c.total_capex,
         total_capex_per_outpost |-> c.total_capex_per_outpost,
         annual_opex |-> c.annual_opex,
         annual_opex_per_outpost |-> c.annual_opex_per_outpost,
         lifetime_opex |-> c.lifetime_opex,
         tco |-> tco,
         tco_per_outpost |-> RDiv(tco, num_outposts),
         monthly_debt_payment |-> monthly_debt_payment,
         monthly_fee_unit |-> monthly_fee_unit,
         annual_fee_unit |-> annual_fee_unit,
         lifetime_fee_total |-> lifetime_fee_total,
         cost_efficiency_per_ton |-> cost_efficiency_per_ton,
         cost_efficiency_lifetime |-> cost_efficiency_lifetime,
         innovation_fund_score |->
             calculate_innovation_fund_score(cost_efficiency_per_ton),
         innovation_fund_score_lifetime |->
             calculate_innovation_fund_score(cost_efficiency_lifetime),
         pilot_markup |-> c.pilot_markup,
         non_unit_cost |-> c.non_unit_cost,
         total_pilot_cost |-> c.total_pilot_cost,
         total_grant |-> c.total_grant,
         debt |-> c.debt,
         lifetime_debt_payment |-> lifetime_debt_payment,
         lcoe |-> RDiv(RAdd(annualized_capex, c.annual_opex_per_outpost),
                       p["annual_energy_production"]),
         payback_years |-> payback_years,
         capex_breakdown |->
             [Microgrid |-> RMul(p["microgrid_capex"], num_outposts),
              Drones |-> RMul(p["drones_capex"], num_outposts)],
         opex_breakdown |->
             [Maintenance |-> RMul(p["maintenance_opex"], num_outposts),
              Communications |-> RMul(p["communications_opex"], num_outposts),
              Security |-> RMul(p["security_opex"], num_outposts)],
         co2_factors |->
             [Manned_Emissions |-> RDiv(e.manned_co2_emissions, R(1000)),
              Autonomous_Emissions |-> RDiv(e.autonomous_co2_emissions, R(1000))]]

\* calculate_os4p that leaves lcoe out of the record when no energy is produced
calculate_os4p_partial(p) ==
    IF ~(KeysReadFirst \subseteq DOMAIN p) THEN Raise("KeyError")
    ELSE
    LET payment == MonthlyPayment(Costs(p).debt, MonthlyRate(p["interest_rate"]),
                                  NumMonths(p["loan_years"]))
    IN  IF payment.outcome # "ok" THEN payment
        ELSE IF RIsZero(p["num_outposts"]) THEN Raise("ZeroDivisionError")
        ELSE IF "annual_energy_production" \notin DOMAIN p THEN Raise("KeyError")
        ELSE IF RIsZero(p["annual_energy_production"])
             THEN Return([k \in MetricFields \ {"lcoe"} |->
                             ResultRecord(p, payment.result)[k]])
        ELSE Return(ResultRecord(p, payment.result))

calculate_os4p(p) ==
    IF ~(KeysReadFirst \subseteq DOMAIN p) THEN Raise("KeyError")
    ELSE
    LET payment == MonthlyPayment(Costs(p).debt, MonthlyRate(p["interest_rate"]),
                                  NumMonths(p["loan_years"]))
    IN  IF payment.outcome # "ok" THEN payment                      \* line 111
        ELSE IF RIsZero(p["num_outposts"])
             THEN Raise("ZeroDivisionError")                        \* line 115
        ELSE IF "annual_energy_production" \notin DOMAIN p
             THEN Raise("KeyError")                                 \* line 140
        ELSE IF RIsZero(p["annual_energy_production"])
             THEN Raise("ZeroDivisionError")                        \* line 141
        ELSE Return(ResultRecord(p, payment.result))

(***************************************************************************)
(* calculate_os4p(num_outposts, fuel_consumption, interest_rate,           *)
(* loan_years, sla_premium)  (src/OS4P.py 6-45)                            *)
(***************************************************************************)
OS4P_operating_days_per_year == 300

OS4P_maintenance_emissions == Frac(15943, 10)

OS4P_microgrid_capex == 110000

OS4P_drones_capex == 60000

OS4P_calculate_os4p(num_outposts, fuel_consumption, interest_rate, loan_years, sla_premium) ==
    LET daily_fuel_consumption ==
            RAdd(RMul(fuel_consumption, R(8)), RMul(Frac(5, 2), R(24)))
        annual_fuel_consumption ==
            RMul(daily_fuel_consumption, R(OS4P_operating_days_per_year))
        manned_co2_emissions == RMul(annual_fuel_consumption, R(1))
        autonomous_co2_emissions == OS4P_maintenance_emissions
        co2_savings_per_outpost ==
            RDiv(RSub(manned_co2_emissions, autonomous_co2_emissions), R(1000))
        co2_savings_all_outposts == RMul(co2_savings_per_outpost, num_outposts)
        co2_savings_lifetime == RMul(co2_savings_all_outposts, loan_years)
        total_capex ==
            RMul(R(OS4P_microgrid_capex + OS4P_drones_capex), num_outposts)
        pilot_markup == RMul(total_capex, PilotMarkup)
        total_grant == RMul(GrantCoverage, pilot_markup)
        debt == RSub(pilot_markup, total_grant)
        payment == MonthlyPayment(debt, MonthlyRate(interest_rate),
                                  NumMonths(loan_years))
        sla_multiplier == RAdd(R(1), RDiv(sla_premium, R(100)))
    IN  IF payment.outcome # "ok" THEN payment                      \* line 33
        ELSE IF RIsZero(num_outposts)
             THEN Raise("ZeroDivisionError")                        \* line 37
        ELSE Return([co2_savings_per_outpost |-> co2_savings_per_outpost,
                     co2_savings_all_outposts |-> co2_savings_all_outposts,
                     co2_savings_lifetime |-> co2_savings_lifetime,
                     monthly_debt_payment |-> payment.result,
                     monthly_fee_unit |->
                         RMul(RDiv(payment.result, num_outposts), sla_multiplier)])

(***************************************************************************)
(* The inputs.                                                             *)
(***************************************************************************)
MaxOutposts == 2

MaxFuel == 2

\* marks a key the caller leaves out of the dict
Absent == <<0, 0>>

Put(p, k, v) ==
    IF v = Absent THEN [x \in DOMAIN p \ {k} |-> p[x]]
    ELSE [x \in DOMAIN p \cup {k} |-> IF x = k THEN v ELSE p[x]]

\* a small fleet: 16 L of fuel a day with one generator, 160 kg CO2 a year
BaseParams ==
    [num_outposts |-> R(1), large_patrol_fuel |-> R(3), rib_fuel |-> R(2),
     small_patrol_fuel |-> R(1), hours_per_day_base |-> R(2),
     interest_rate |-> R(1200), loan_years |-> R(1), sla_premium |-> R(50),
     operating_days_per_year |-> R(10), co2_factor |-> R(1),
     maintenance_emissions |-> R(158), microgrid_capex |-> R(3),
     drones_capex |-> R(1), maintenance_opex |-> R(2),
     communications_opex |-> R(1), security_opex |-> R(0),
     genset_fuel_per_hour |-> Frac(1, 2), genset_operating_hours |-> R(4),
     num_ms240_gd_vehicles |-> R(1), ms240_gd_fuel_consumption |-> R(1),
     num_large_patrol_boats |-> R(1), num_rib_boats |-> R(1),
     num_small_patrol_boats |-> R(1), lifetime_years |-> R(2),
     annual_energy_production |-> R(1000)]

OutpostCounts == {R(n) : n \in -1..MaxOutposts}

InterestRates == {R(0), R(600), R(1200)}

LoanYearsValues == {R(-1), R(0), R(1)}

EnergyValues == {Absent, R(-1000), R(0), R(1000)}

MaintenanceValues == {R(158), R(159), R(160), R(200)}

GeneratorCounts == {Absent, R(2)}

NonUnitCostPcts == {Absent, R(100)}

SlaPremiums == {R(0), R(50)}

InputSpace ==
    {Put(Put(Put(Put(Put(Put(Put(Put(BaseParams,
         "num_outposts", n), "interest_rate", i), "loan_years", y),
         "annual_energy_production", e), "maintenance_emissions", m),
         "number_diesel_generators", g), "non_unit_cost_pct", c),
         "sla_premium", s) :
        n \in OutpostCounts, i \in InterestRates, y \in LoanYearsValues,
        e \in EnergyValues, m \in MaintenanceValues, g \in GeneratorCounts,
        c \in NonUnitCostPcts, s \in SlaPremiums}

\* arguments of the OS4P.py variant
OS4P_Args ==
    [num_outposts : OutpostCounts,
     fuel_consumption : {R(25 * f) : f \in 0..MaxFuel},
     interest_rate : {R(0), R(1200)},
     loan_years : LoanYearsValues,
     sla_premium : SlaPremiums]

\* cost-efficiency ratios handed to the score function
Ratios ==
    {R(-1000), R(0), R(1), Frac(125, 3), R(125), R(1000), Frac(5875, 3), R(1999),
     R(2000), R(2001), R(4000), Inf}

(***************************************************************************)
(* One script run: main builds the params dict from the widgets and calls  *)
(* calculate_os4p (src/OS4P_dashboard.py 645-692); the other two functions *)
(* are called directly.  A rerun starts from scratch.                      *)
(***************************************************************************)
NoParams == [none |-> TRUE]

NoCall == [fn |-> "none"]

\* the threads that may be inside calculate_os4p at the same time
MaxCalls == 2

Calls == 1..MaxCalls

NoLocals == [k \in {} |-> R(0)]

\* the frame of a call: its position, the dict object it was handed, the
\* local names bound so far, and the locations it has read and written
IdleFrame ==
    [pc |-> "idle", dict |-> 0, locals |-> NoLocals, dictreads |-> {},
     reads |-> {}, writes |-> {}, overlapped |-> FALSE, outcome |-> "none",
     result |-> NoResult]

\* the cash-flow section of the Financial Analysis tab has not run
DcfOff == [pc |-> "off"]

\* no sensitivity analysis is running
SensOff == [pc |-> "off"]

\* the scoring tab has not been drawn
ScoreOff == [pc |-> "off"]

\* the debt repayment section has not run
AmortOff == [pc |-> "off"]

\* a browser session that has not run the script yet: st.session_state is
\* empty ("video_viewed" is not a key), nothing is on the page, the first
\* run is not the answer to a click, and the user has done nothing yet
NewSession ==
    [pc |-> "start", video_viewed |-> "unset", shown |-> {}, clicked |-> FALSE,
     events |-> 0]

Init ==
    /\ pc = "idle"
    /\ params = NoParams
    /\ last = NoCall
    /\ memo = NoCall
    /\ frames = [i \in Calls |-> IdleFrame]
    /\ dcf = DcfOff
    /\ sens = SensOff
    /\ scoring = ScoreOff
    /\ amort = AmortOff
    /\ session = NewSession

\* main, lines 645-690: the dict is built from the widget values
BuildParams ==
    /\ pc = "idle"
    /\ \E p \in InputSpace : params' = p
    /\ pc' = "built"
    /\ UNCHANGED <<last, memo>>
    /\ UNCHANGED aux

CallRecord(fn, args, c) ==
    [fn |-> fn, args |-> args, outcome |-> c.outcome, result |-> c.result]

\* a call that fills the defaults into the caller's dict (setdefault for get)
Calculate_setdefault ==
    /\ pc = "built"
    /\ last' = CallRecord("calculate_os4p", params, calculate_os4p(params))
    /\ params' = Put(Put(params, "number_diesel_generators",
                         Get(params, "number_diesel_generators", R(1))),
                     "non_unit_cost_pct", Get(params, "non_unit_cost_pct", R(0)))
    /\ pc' = "done"
    /\ UNCHANGED memo
    /\ UNCHANGED aux

\* a call that adds its outposts to a total an earlier call left behind
Calculate_global ==
    /\ pc = "built"
    /\ last' = CallRecord("calculate_os4p", params,
                   calculate_os4p(
                       IF memo.fn = "calculate_os4p"
                       THEN Put(params, "num_outposts",
                                RAdd(params["num_outposts"],
                                     memo.args["num_outposts"]))
                       ELSE params))
    /\ pc' = "done"
    /\ UNCHANGED <<params, memo>>
    /\ UNCHANGED aux

\* main, line 692: results = calculate_os4p(params)
Calculate ==
    /\ pc = "built"
    /\ last' = CallRecord("calculate_os4p", params, calculate_os4p(params))
    /\ pc' = "done"
    /\ UNCHANGED <<params, memo>>
    /\ UNCHANGED aux

OS4P_Call ==
    /\ pc = "idle"
    /\ \E a \in OS4P_Args :
          last' = CallRecord("OS4P.calculate_os4p", a,
                      OS4P_calculate_os4p(a.num_outposts, a.fuel_consumption,
                          a.interest_rate, a.loan_years, a.sla_premium))
    /\ pc' = "done"
    /\ UNCHANGED <<params, memo>>
    /\ UNCHANGED aux

ScoreCall ==
    /\ pc = "idle"
    /\ \E ratio \in Ratios :
          last' = CallRecord("calculate_innovation_fund_score", ratio,
                      Return(calculate_innovation_fund_score(ratio)))
    /\ pc' = "done"
    /\ UNCHANGED <<params, memo>>
    /\ UNCHANGED aux

Rerun ==
    /\ pc = "done"
    /\ pc' = "idle"
    /\ params' = NoParams
    /\ last' = NoCall
    /\ UNCHANGED memo
    /\ UNCHANGED aux

Next ==
    \/ BuildParams
    \/ Calculate
    \/ OS4P_Call
    \/ ScoreCall
    \/ Rerun

Spec == Init /\ [][Next]_vars

(***************************************************************************)
(* A session of several runs.  memo is a history variable: it keeps one    *)
(* earlier call (function, arguments, outcome, result) across reruns, so    *)
(* that a later call can be compared with it.                              *)
(***************************************************************************)
SessionInputs ==
    {Put(Put(Put(Put(BaseParams,
         "num_outposts", n), "interest_rate", i), "maintenance_emissions", m),
         "number_diesel_generators", g) :
        n \in {R(k) : k \in 1..MaxOutposts}, i \in {R(0), R(1200)},
        m \in {R(158), R(160)}, g \in GeneratorCounts}

SessionBuild ==
    /\ pc = "idle"
    /\ \E p \in SessionInputs : params' = p
    /\ pc' = "built"
    /\ UNCHANGED <<last, memo>>
    /\ UNCHANGED aux

\* a rerun that records the finished call in the history variable
Remember ==
    /\ pc = "done"
    /\ memo = NoCall
    /\ memo' = last
    /\ pc' = "idle"
    /\ params' = NoParams
    /\ last' = NoCall
    /\ UNCHANGED aux

NextSession ==
    \/ SessionBuild
    \/ Calculate
    \/ OS4P_Call
    \/ ScoreCall
    \/ Rerun
    \/ Remember

SpecSession == Init /\ [][NextSession]_vars

(***************************************************************************)
(* Direct calls over the fuel and emission inputs (the manned scenario of  *)
(* lines 68-91).  calculate_os4p takes any numbers: the sets hold zero     *)
(* counts and a negative factor next to the values the widgets allow.      *)
(***************************************************************************)
FuelInputs ==
    {Put(Put(Put(Put(Put(Put(Put(Put(Put(Put(BaseParams,
         "interest_rate", i),
         "num_large_patrol_boats", a), "num_rib_boats", b),
         "num_small_patrol_boats", c), "hours_per_day_base", h),
         "genset_operating_hours", g), "number_diesel_generators", k),
         "num_ms240_gd_vehicles", v), "co2_factor", f),
         "maintenance_emissions", m) :
        a \in {R(0), R(1)}, b \in {R(0), R(2)}, c \in {R(0), R(1)},
        h \in {R(2), R(3)}, g \in {R(0), R(4)}, k \in GeneratorCounts,
        v \in {R(0), R(1)}, f \in {R(-1), R(1), R(2)},
        m \in {R(0), R(158)}, i \in {R(0), R(1200)}}

FuelBuild ==
    /\ pc = "idle"
    /\ \E p \in FuelInputs : params' = p
    /\ pc' = "built"
    /\ UNCHANGED <<last, memo>>
    /\ UNCHANGED aux

NextFuel ==
    \/ FuelBuild
    \/ Calculate
    \/ OS4P_Call
    \/ Rerun

SpecFuel == Init /\ [][NextFuel]_vars

(***************************************************************************)
(* Calls that differ in the loan term and the asset lifetime.  As in a     *)
(* session, memo keeps one earlier call for the comparison with a later    *)
(* one.                                                                    *)
(***************************************************************************)
TermInputs ==
    {Put(Put(Put(Put(BaseParams,
         "num_outposts", n), "loan_years", y), "lifetime_years", l),
         "maintenance_emissions", m) :
        n \in {R(k) : k \in 1..MaxOutposts}, y \in {R(1), R(2)},
        l \in {R(1), R(2), R(3)}, m \in {R(158), R(200)}}

TermBuild ==
    /\ pc = "idle"
    /\ \E p \in TermInputs : params' = p
    /\ pc' = "built"
    /\ UNCHANGED <<last, memo>>
    /\ UNCHANGED aux

NextTerm ==
    \/ TermBuild
    \/ Calculate
    \/ OS4P_Call
    \/ Rerun
    \/ Remember

SpecTerm == Init /\ [][NextTerm]_vars

(***************************************************************************)
(* Concurrent calls of calculate_os4p (src/OS4P_dashboard.py 46-191), one  *)
(* per Streamlit session thread or sensitivity caller.  A call is cut into *)
(* five steps; between two steps of one call any step of another call may  *)
(* run.  Every name the function assigns is a local of its own frame (the  *)
(* body has no global or nonlocal statement and no assignment through      *)
(* params); the dict objects are only read.  The names bound in lines      *)
(* 112-139 are functions of the names bound before them and are formed     *)
(* when the record is built.                                               *)
(***************************************************************************)
\* the dict objects the callers hold; two calls may be handed the same one
ConcDicts ==
    <<BaseParams,
      Put(Put(BaseParams, "num_outposts", R(2)), "number_diesel_generators", R(2)),
      Put(BaseParams, "interest_rate", R(0)),
      Put(BaseParams, "annual_energy_production", Absent)>>

\* names bound by lines 48-66
LocalKeys ==
    {"num_outposts", "large_patrol_fuel", "rib_fuel", "small_patrol_fuel",
     "hours_per_day_base", "interest_rate", "loan_years", "sla_premium",
     "operating_days_per_year", "co2_factor", "maintenance_emissions",
     "microgrid_capex", "drones_capex", "maintenance_opex",
     "communications_opex", "security_opex"}

Running == {"read", "payment", "fees", "lcoe", "return"}

\* what the body sees: a local name where one is bound, else the dict entry
View(f) ==
    [k \in DOMAIN ConcDicts[f.dict] |->
        IF k \in DOMAIN f.locals THEN f.locals[k] ELSE ConcDicts[f.dict][k]]

\* an assignment that binds the names in one module-level namespace
Bind_global(fr, i, names) ==
    [j \in DOMAIN fr |->
        [fr[j] EXCEPT !.locals = names @@ @,
                      !.writes = IF j = i
                                 THEN @ \cup {<<c, k>> : c \in DOMAIN fr,
                                                         k \in DOMAIN names}
                                 ELSE @]]

\* call i assigns local names: they are bound in frame i only
Bind(fr, i, names) ==
    [fr EXCEPT ![i].locals = names @@ @,
               ![i].writes = @ \cup {<<i, k>> : k \in DOMAIN names}]

\* call i evaluates names and params[...] subscripts
Load(fr, i, keys) ==
    [fr EXCEPT ![i].reads = @ \cup {<<i, k>> : k \in DOMAIN fr[i].locals},
               ![i].dictreads = @ \cup {<<fr[i].dict, k>> : k \in keys}]

\* history: another call was inside the function while call i stepped
Step(fr, i, next) ==
    [fr EXCEPT ![i].pc = next,
               ![i].overlapped = @ \/ \E j \in Calls \ {i} : fr[j].pc \in Running]

Finish(fr, i, c) ==
    [Step(fr, i, "done") EXCEPT ![i].outcome = c.outcome, ![i].result = c.result]

StartCall(i) ==
    /\ frames[i].pc = "idle"
    /\ \E d \in DOMAIN ConcDicts :
          frames' = [frames EXCEPT ![i] = [IdleFrame EXCEPT !.pc = "read",
                                                            !.dict = d]]
    /\ UNCHANGED <<pc, params, last, memo, dcf, pages>>

\* lines 48-66
StepRead(i) ==
    /\ frames[i].pc = "read"
    /\ LET d == ConcDicts[frames[i].dict]
       IN  frames' =
             IF ~(LocalKeys \subseteq DOMAIN d)
             THEN Finish(frames, i, Raise("KeyError"))
             ELSE Step(Bind(Load(frames, i, LocalKeys), i,
                            [k \in LocalKeys |-> d[k]]), i, "payment")
    /\ UNCHANGED <<pc, params, last, memo, dcf, pages>>

\* lines 68-111
StepPayment(i) ==
    /\ frames[i].pc = "payment"
    /\ LET f == frames[i]
           p == View(f)
           payment == MonthlyPayment(Costs(p).debt,
                          MonthlyRate(f.locals["interest_rate"]),
                          NumMonths(f.locals["loan_years"]))
           loaded == Load(frames, i, (KeysReadFirst \ LocalKeys)
                              \cup {"number_diesel_generators",
                                    "non_unit_cost_pct"})
       IN  frames' =
             IF ~(KeysReadFirst \subseteq DOMAIN p)
             THEN Finish(frames, i, Raise("KeyError"))
             ELSE IF payment.outcome # "ok"
             THEN Finish(loaded, i, payment)
             ELSE Step(Bind(loaded, i,
                            Emissions(p) @@ Costs(p) @@
                            [monthly_debt_payment |-> payment.result]),
                       i, "fees")
    /\ UNCHANGED <<pc, params, last, memo, dcf, pages>>

\* lines 112-131: the divisions by num_outposts
StepFees(i) ==
    /\ frames[i].pc = "fees"
    /\ frames' =
          IF RIsZero(frames[i].locals["num_outposts"])
          THEN Finish(Load(frames, i, {}), i, Raise("ZeroDivisionError"))
          ELSE Step(Load(frames, i, {}), i, "lcoe")
    /\ UNCHANGED <<pc, params, last, memo, dcf, pages>>

\* lines 133-141
StepLcoe(i) ==
    /\ frames[i].pc = "lcoe"
    /\ LET d == ConcDicts[frames[i].dict]
           loaded == Load(frames, i, {"annual_energy_production"})
       IN  frames' =
             IF "annual_energy_production" \notin DOMAIN d
             THEN Finish(loaded, i, Raise("KeyError"))
             ELSE IF RIsZero(d["annual_energy_production"])
             THEN Finish(loaded, i, Raise("ZeroDivisionError"))
             ELSE Step(Bind(loaded, i,
                            [annual_energy |-> d["annual_energy_production"]]),
                       i, "return")
    /\ UNCHANGED <<pc, params, last, memo, dcf, pages>>

\* lines 143-191: the record is built from the frame's names
StepReturn(i) ==
    /\ frames[i].pc = "return"
    /\ \E p \in {View(frames[i])} :
       \E rec \in {ResultRecord(p, frames[i].locals["monthly_debt_payment"])} :
          frames' =
             Finish(Load(frames, i, {}), i,
                    Return([k \in DOMAIN rec |->
                              IF k \in DOMAIN frames[i].locals
                              THEN frames[i].locals[k]
                              ELSE rec[k]]))
    /\ UNCHANGED <<pc, params, last, memo, dcf, pages>>

NextConc ==
    \E i \in Calls :
        \/ StartCall(i)
        \/ StepRead(i)
        \/ StepPayment(i)
        \/ StepFees(i)
        \/ StepLcoe(i)
        \/ StepReturn(i)

SpecConc == Init /\ [][NextConc]_vars

(***************************************************************************)
(* main: the CAPEX widgets of the sidebar, the params dict and the call    *)
(* (src/OS4P_dashboard.py 551-692).  The widget values are integers in     *)
(* euro, inside the ranges of the number_input calls.                      *)
(***************************************************************************)
SolarValues == {R(5000), R(15000)}

TelecomValues == {R(5000), R(15000)}

InstallValues == {R(5000), R(12000)}

ContingencyValues == {R(0), R(5000)}

DroneUnits == {1, 3}

\* the widgets outside the CAPEX section (lines 500-550, 645-671)
MainParams ==
    Put(Put(BaseParams, "number_diesel_generators", R(1)),
        "non_unit_cost_pct", R(0))

RECURSIVE SumValues(_)
\* sum(d.values()) of a dict of numbers
SumValues(d) ==
    IF DOMAIN d = {} THEN R(0)
    ELSE LET k == CHOOSE x \in DOMAIN d : TRUE
         IN  RAdd(d[k], SumValues([x \in DOMAIN d \ {k} |-> d[x]]))

\* lines 554-625 (the widgets and their totals) and 675-688 (the entries
\* written to params when the detailed breakdown is shown)
DetailedCapex(solar_pv_capex, wind_turbine_capex, battery_capex, telecom_capex, microgrid_transp, install_capex, bos_contin, drone_units, drone_unit_cost) ==
    LET microgrid_equipment ==
            RAdd(RAdd(RAdd(solar_pv_capex, wind_turbine_capex), battery_capex),
                 telecom_capex)
        microgrid_bos == RAdd(RAdd(microgrid_transp, install_capex), bos_contin)
        microgrid_capex == RAdd(microgrid_equipment, microgrid_bos)
        bos_capex == microgrid_bos
        drones_capex == RMul(R(drone_units), drone_unit_cost)
    IN  [microgrid_capex |-> microgrid_capex,
         drones_capex |-> drones_capex,
         detailed_capex |->
            ("Solar PV (10kWp)" :> solar_pv_capex) @@
            ("Wind Turbine (3kW)" :> wind_turbine_capex) @@
            ("Battery Storage (30kWh)" :> battery_capex) @@
            ("Telecommunications" :> telecom_capex) @@
            ("Microgrid BOS" :> microgrid_bos) @@
            ("Installation & Commissioning" :> install_capex) @@
            (("Drones (" \o ToString(drone_units) \o "x)") :> drones_capex) @@
            ("Additional BOS" :> bos_capex)]

\* show_capex_detail ticked: lines 554-625, 645-688
EnterDetailedCapex ==
    /\ pc = "idle"
    /\ \E n \in 1..MaxOutposts, solar \in SolarValues, telecom \in TelecomValues,
          install \in InstallValues, contin \in ContingencyValues,
          units \in DroneUnits :
          LET c == DetailedCapex(solar, R(12000), R(36000), telecom, R(20000),
                                 install, contin, units, R(20000))
          IN  params' =
                Put(Put(Put(Put(MainParams, "num_outposts", R(n)),
                    "microgrid_capex", c.microgrid_capex),
                    "drones_capex", c.drones_capex),
                    "detailed_capex", c.detailed_capex)
    /\ pc' = "built"
    /\ UNCHANGED <<last, memo>>
    /\ UNCHANGED aux

\* show_capex_detail not ticked: lines 626-637, 645-671, 689-690
EnterCapex ==
    /\ pc = "idle"
    /\ \E n \in 1..MaxOutposts, m \in {R(50000), R(110000)},
          d \in {R(20000), R(60000)} :
          params' = Put(Put(Put(MainParams, "num_outposts", R(n)),
                        "microgrid_capex", m), "drones_capex", d)
    /\ pc' = "built"
    /\ UNCHANGED <<last, memo>>
    /\ UNCHANGED aux

NextMain ==
    \/ EnterDetailedCapex
    \/ EnterCapex
    \/ Calculate
    \/ Rerun

SpecMain == Init /\ [][NextMain]_vars

(***************************************************************************)
(* The cash-flow analyses of the Financial Analysis tab                    *)
(* (src/OS4P_dashboard.py 886-1023).  The section reads the widget values, *)
(* params and the record returned by calculate_os4p; here these are drawn  *)
(* as numbers, money in thousands of euro.  The rate 12.5 % makes 1 + r =  *)
(* 9/8, so that the discount factors stay exact.  The year loop of the     *)
(* detailed model and the row loop of the payback take one step per pass.  *)
(***************************************************************************)
MaxLifetime == 3

\* payback = None (line 1014), shown as 'Not achieved'
NotAchieved == 0

DcfInputs ==
    {[interest_rate |-> Frac(25, 2), loan_years |-> y, lifetime_years |-> l,
      num_outposts |-> R(n), microgrid_capex |-> R(600), drones_capex |-> R(400),
      annual_fee_unit |-> f, annual_opex |-> RMul(R(30), R(n)),
      monthly_debt_payment |-> RMul(R(17), R(n)), tax_rate |-> x,
      revenue_growth_rate |-> g, opex_growth_rate |-> R(0),
      depreciation_period |-> d] :
        y \in {2, 3}, l \in 1..MaxLifetime, n \in {1, 2},
        f \in {R(27), R(40), R(60), R(100)}, x \in {R(0), Frac(1, 4)},
        g \in {R(0), Frac(1, 8)}, d \in 1..MaxLifetime}

RECURSIVE SimpleNpvLoop(_, _, _, _, _)
\* lines 899-902: for t in range(1, years + 1): npv += cf / (1 + rate) ** t
SimpleNpvLoop(npv, annual_cash_flow, discount_rate, t, years) ==
    IF t > years THEN npv
    ELSE SimpleNpvLoop(
             RAdd(npv, RDiv(annual_cash_flow, RPow(RAdd(R(1), discount_rate), t))),
             annual_cash_flow, discount_rate, t + 1, years)

\* lines 887-894
SimpleCashFlow(in) ==
    LET annual_revenue ==
            RMul(RMul(in.annual_fee_unit, R(12)), in.num_outposts)
        annual_debt_service == RMul(in.monthly_debt_payment, R(12))
    IN  RSub(RAdd(annual_revenue, in.annual_opex), annual_debt_service)

\* lines 887-902
SimpleNpv(in) ==
    LET initial_investment ==
            RMul(RAdd(in.microgrid_capex, in.drones_capex), in.num_outposts)
    IN  SimpleNpvLoop(RNeg(initial_investment), SimpleCashFlow(in),
                      RDiv(in.interest_rate, R(100)), 1, in.loan_years)

\* line 945
DcfTotalCapex(in) ==
    RAdd(RMul(in.microgrid_capex, in.num_outposts),
         RMul(in.drones_capex, in.num_outposts))

\* a year loop that goes on depreciating after depreciation_period
DcfRow_depreciation_every_year(in, t, cumulative_cf) ==
    LET total_capex == DcfTotalCapex(in)
        annual_revenue ==
            RMul(RMul(RMul(in.annual_fee_unit, R(12)), in.num_outposts),
                 RPow(RAdd(R(1), in.revenue_growth_rate), t - 1))
        annual_opex ==
            RMul(in.annual_opex, RPow(RAdd(R(1), in.opex_growth_rate), t - 1))
        depreciation ==
            RDiv(total_capex, R(in.depreciation_period))
        EBIT == RSub(RAdd(annual_revenue, annual_opex), depreciation)
        taxes == IF RLt(R(0), EBIT) THEN RMul(in.tax_rate, EBIT) ELSE R(0)
        FCFF == RAdd(RSub(EBIT, taxes), depreciation)
        df == RPow(RAdd(R(1), RDiv(in.interest_rate, R(100))), -t)
        discounted_fcff == RMul(FCFF, df)
    IN  [Year |-> t, Revenue |-> annual_revenue, OPEX |-> annual_opex,
         Depreciation |-> depreciation, EBIT |-> EBIT, Taxes |-> taxes,
         FCFF |-> FCFF, DiscountFactor |-> df,
         DiscountedFCFF |-> discounted_fcff,
         CumulativeCF |-> RAdd(cumulative_cf, discounted_fcff)]

\* a year loop that taxes a negative EBIT too
DcfRow_tax_on_losses(in, t, cumulative_cf) ==
    LET total_capex == DcfTotalCapex(in)
        annual_revenue ==
            RMul(RMul(RMul(in.annual_fee_unit, R(12)), in.num_outposts),
                 RPow(RAdd(R(1), in.revenue_growth_rate), t - 1))
        annual_opex ==
            RMul(in.annual_opex, RPow(RAdd(R(1), in.opex_growth_rate), t - 1))
        depreciation ==
            IF t <= in.depreciation_period
            THEN RDiv(total_capex, R(in.depreciation_period)) ELSE R(0)
        EBIT == RSub(RAdd(annual_revenue, annual_opex), depreciation)
        taxes == RMul(in.tax_rate, EBIT)
        FCFF == RAdd(RSub(EBIT, taxes), depreciation)
        df == RPow(RAdd(R(1), RDiv(in.interest_rate, R(100))), -t)
        discounted_fcff == RMul(FCFF, df)
    IN  [Year |-> t, Revenue |-> annual_revenue, OPEX |-> annual_opex,
         Depreciation |-> depreciation, EBIT |-> EBIT, Taxes |-> taxes,
         FCFF |-> FCFF, DiscountFactor |-> df,
         DiscountedFCFF |-> discounted_fcff,
         CumulativeCF |-> RAdd(cumulative_cf, discounted_fcff)]

\* lines 956-992: one pass of the year loop, the row appended to dcf_data
DcfRow(in, t, cumulative_cf) ==
    LET total_capex == DcfTotalCapex(in)
        annual_revenue ==
            RMul(RMul(RMul(in.annual_fee_unit, R(12)), in.num_outposts),
                 RPow(RAdd(R(1), in.revenue_growth_rate), t - 1))
        annual_opex ==
            RMul(in.annual_opex, RPow(RAdd(R(1), in.opex_growth_rate), t - 1))
        depreciation ==
            IF t <= in.depreciation_period
            THEN RDiv(total_capex, R(in.depreciation_period)) ELSE R(0)
        EBIT == RSub(RAdd(annual_revenue, annual_opex), depreciation)
        taxes == IF RLt(R(0), EBIT) THEN RMul(in.tax_rate, EBIT) ELSE R(0)
        FCFF == RAdd(RSub(EBIT, taxes), depreciation)
        df == RPow(RAdd(R(1), RDiv(in.interest_rate, R(100))), -t)
        discounted_fcff == RMul(FCFF, df)
    IN  [Year |-> t, Revenue |-> annual_revenue, OPEX |-> annual_opex,
         Depreciation |-> depreciation, EBIT |-> EBIT, Taxes |-> taxes,
         FCFF |-> FCFF, DiscountFactor |-> df,
         DiscountedFCFF |-> discounted_fcff,
         CumulativeCF |-> RAdd(cumulative_cf, discounted_fcff)]

RECURSIVE NpfNpv_from_year_one(_, _)
\* a net present value that discounts the first value by one period
NpfNpv_from_year_one(rate, values) ==
    IF values = << >> THEN R(0)
    ELSE RAdd(RDiv(values[Len(values)], RPow(RAdd(R(1), rate), Len(values))),
              NpfNpv_from_year_one(rate, SubSeq(values, 1, Len(values) - 1)))

RECURSIVE NpfNpv(_, _)
\* numpy_financial.npv(rate, values): sum of values[i] / (1 + rate) ** i, the
\* first value undiscounted (line 1009)
NpfNpv(rate, values) ==
    IF values = << >> THEN R(0)
    ELSE RAdd(RDiv(values[Len(values)], RPow(RAdd(R(1), rate), Len(values) - 1)),
              NpfNpv(rate, SubSeq(values, 1, Len(values) - 1)))

\* lines 886-954: the simple analysis, then the set-up of the detailed one
DcfStart ==
    /\ dcf.pc = "off"
    /\ \E in \in DcfInputs :
          /\ in.depreciation_period <= in.lifetime_years
          /\ dcf' = [pc |-> "years", in |-> in, npv |-> SimpleNpv(in), t |-> 1,
                     cumulative_cf |-> RNeg(DcfTotalCapex(in)), rows |-> << >>,
                     npv_value |-> R(0), cum_cash |-> R(0), idx |-> 0,
                     payback |-> NotAchieved]
    /\ UNCHANGED <<pc, params, last, memo, frames, pages>>

\* lines 956-992: one year of the detailed model
DcfYear ==
    /\ dcf.pc = "years"
    /\ dcf.t <= dcf.in.lifetime_years
    /\ LET row == DcfRow(dcf.in, dcf.t, dcf.cumulative_cf)
       IN  dcf' = [dcf EXCEPT !.rows = Append(@, row),
                              !.cumulative_cf = row.CumulativeCF,
                              !.t = @ + 1]
    /\ UNCHANGED <<pc, params, last, memo, frames, pages>>

\* lines 994-1014: the table is complete; NPV, then the payback set-up
DcfTable ==
    /\ dcf.pc = "years"
    /\ dcf.t > dcf.in.lifetime_years
    /\ dcf' = [dcf EXCEPT
                 !.pc = "payback",
                 !.npv_value =
                     NpfNpv(RDiv(dcf.in.interest_rate, R(100)),
                            <<RNeg(DcfTotalCapex(dcf.in))>> \o
                            [i \in 1..Len(dcf.rows) |-> dcf.rows[i].FCFF]),
                 !.cum_cash = RNeg(DcfTotalCapex(dcf.in)),
                 !.idx = 1,
                 !.payback = NotAchieved]
    /\ UNCHANGED <<pc, params, last, memo, frames, pages>>

\* a pass of the payback loop that goes on after a non-negative year
PaybackPass_no_break(d) ==
    LET row == d.rows[d.idx]
        cum_cash == RAdd(d.cum_cash, row.DiscountedFCFF)
    IN  [d EXCEPT !.cum_cash = cum_cash,
                  !.payback = IF RLe(R(0), cum_cash) THEN row.Year ELSE @,
                  !.idx = @ + 1]

\* lines 1015-1019: one pass of the payback loop; break at the first year
\* with cum_cash >= 0
PaybackPass(d) ==
    LET row == d.rows[d.idx]
        cum_cash == RAdd(d.cum_cash, row.DiscountedFCFF)
    IN  IF RLe(R(0), cum_cash)
        THEN [d EXCEPT !.cum_cash = cum_cash, !.payback = row.Year,
                       !.pc = "shown"]
        ELSE [d EXCEPT !.cum_cash = cum_cash, !.idx = @ + 1]

DcfPaybackRow ==
    /\ dcf.pc = "payback"
    /\ dcf.idx <= Len(dcf.rows)
    /\ dcf' = PaybackPass(dcf)
    /\ UNCHANGED <<pc, params, last, memo, frames, pages>>

\* the rows are used up: lines 1021-1023 show the metrics
DcfShow ==
    /\ dcf.pc = "payback"
    /\ dcf.idx > Len(dcf.rows)
    /\ dcf' = [dcf EXCEPT !.pc = "shown"]
    /\ UNCHANGED <<pc, params, last, memo, frames, pages>>

\* a widget change reruns the script
DcfRerun ==
    /\ dcf.pc = "shown"
    /\ dcf' = DcfOff
    /\ UNCHANGED <<pc, params, last, memo, frames, pages>>

NextDcf ==
    \/ DcfStart
    \/ DcfYear
    \/ DcfTable
    \/ DcfPaybackRow
    \/ DcfShow
    \/ DcfRerun

SpecDcf == Init /\ [][NextDcf]_vars

(***************************************************************************)
(* Sensitivity analysis.  perform_sensitivity_analysis (src/OS4P_dashboard *)
(* .py 247-263) runs calculate_os4p once per value, one loop pass per      *)
(* step; create_innovation_fund_score_chart (281-292) then derives the     *)
(* plotted scores from the table.  given is a history variable: the dict   *)
(* as the caller handed it over.  sensitivity_analysis_co2 (src/OS4P.py    *)
(* 47-92) does the same for three parameters of the other variant.         *)
(***************************************************************************)
\* a fleet that burns 1234 L a day on 300 days: 370 t CO2 a year
SensBase ==
    Put(Put(Put(BaseParams, "large_patrol_fuel", R(150)),
            "hours_per_day_base", R(8)), "operating_days_per_year", R(300))

SensBases ==
    {Put(Put(SensBase, "num_outposts", R(n)), "number_diesel_generators", g) :
        n \in 1..MaxOutposts, g \in GeneratorCounts}

\* the parameter to vary and the values handed over as range_values
SensCases ==
    {[param |-> "large_patrol_fuel", values |-> <<R(50), R(150), R(300)>>],
     [param |-> "large_patrol_fuel", values |-> <<R(300), R(50)>>],
     [param |-> "co2_factor", values |-> <<Frac(1, 2), R(1), R(3)>>],
     [param |-> "maintenance_emissions", values |-> <<R(500), R(5000)>>],
     [param |-> "hours_per_day_base", values |-> <<R(4), R(24), R(24)>>],
     [param |-> "number_diesel_generators", values |-> <<R(2)>>],
     [param |-> "rib_fuel", values |-> << >>],
     [param |-> "num_outposts", values |-> <<R(1), R(0), R(2)>>]}

\* lines 253-262: the row appended for one value
SensRowOf(value, result) ==
    [Parameter_Value |-> value,
     Absolute_Avoidance_Per_Outpost |-> result.ghg_abs_avoidance_per_outpost,
     Absolute_Avoidance_All_Outposts |-> result.ghg_abs_avoidance_all_outposts,
     Manned_CO2_Emissions |-> RDiv(result.manned_co2_emissions, R(1000)),
     Autonomous_CO2_Emissions |-> RDiv(result.autonomous_co2_emissions, R(1000)),
     Relative_Avoidance |-> result.ghg_rel_avoidance,
     Cost_Efficiency |-> result.cost_efficiency_per_ton,
     Innovation_Fund_Score |-> result.innovation_fund_score]

\* the two statements with the assignment going to the caller's dict
SensPass_alias(base_params, sensitivity_param, value) ==
    [base |-> Put(base_params, sensitivity_param, value),
     params |-> Put(base_params, sensitivity_param, value)]

\* lines 250-251: params = base_params.copy(); params[sensitivity_param] =
\* value.  The dict of the caller and the dict handed to calculate_os4p.
SensPass(base_params, sensitivity_param, value) ==
    LET copy == [k \in DOMAIN base_params |-> base_params[k]]
    IN  [base |-> base_params, params |-> Put(copy, sensitivity_param, value)]

\* the grant the chart helper writes into its ratio
ChartGrant == 500000

\* lines 284-288: the score plotted for one row of the table
ChartScore(row) ==
    IF RLt(R(0), row.Absolute_Avoidance_All_Outposts)
    THEN calculate_innovation_fund_score(
             RDiv(R(ChartGrant), row.Absolute_Avoidance_All_Outposts))
    ELSE R(0)

\* main, line 1277: perform_sensitivity_analysis(params, selected_param, ...)
SensStart ==
    /\ sens.pc = "off"
    /\ \E b \in SensBases, c \in SensCases :
          sens' = [pc |-> "loop", given |-> b, base |-> b, param |-> c.param,
                   values |-> c.values, rows |-> << >>, plotted |-> << >>]
    /\ UNCHANGED <<pc, params, last, memo, frames, dcf, scoring, amort, session>>

\* lines 249-262
SensRow ==
    /\ sens.pc = "loop"
    /\ Len(sens.rows) < Len(sens.values)
    /\ \E value \in {sens.values[Len(sens.rows) + 1]} :
       \E r \in {SensPass(sens.base, sens.param, value)} :
       \E p \in {r.params} :
       \E result \in {calculate_os4p(p)} :
          sens' = IF result.outcome = "ok"
                  THEN [sens EXCEPT !.base = r.base,
                                    !.rows = Append(@, SensRowOf(value, result.result))]
                  ELSE [sens EXCEPT !.base = r.base, !.pc = result.outcome]
    /\ UNCHANGED <<pc, params, last, memo, frames, dcf, scoring, amort, session>>

\* line 263
SensReturn ==
    /\ sens.pc = "loop"
    /\ Len(sens.rows) = Len(sens.values)
    /\ sens' = [sens EXCEPT !.pc = "table"]
    /\ UNCHANGED <<pc, params, last, memo, frames, dcf, scoring, amort, session>>

\* main, line 1307: create_innovation_fund_score_chart(sensitivity_results, ...)
SensChart ==
    /\ sens.pc = "table"
    /\ sens' = [sens EXCEPT !.pc = "chart",
                            !.plotted = [i \in 1..Len(sens.rows) |->
                                            ChartScore(sens.rows[i])]]
    /\ UNCHANGED <<pc, params, last, memo, frames, dcf, scoring, amort, session>>

\* src/OS4P.py lines 15-21: the savings of the other variant; its lines 24-37
\* raise nothing for the base case of lines 53-59 (rate 5, 120 months) and
\* their results are not read by the analysis
OS4P_Savings(num_outposts, fuel_consumption, loan_years) ==
    LET daily_fuel_consumption ==
            RAdd(RMul(fuel_consumption, R(8)), RMul(Frac(5, 2), R(24)))
        annual_fuel_consumption ==
            RMul(daily_fuel_consumption, R(OS4P_operating_days_per_year))
        manned_co2_emissions == RMul(annual_fuel_consumption, R(1))
        co2_savings_per_outpost ==
            RDiv(RSub(manned_co2_emissions, OS4P_maintenance_emissions), R(1000))
        co2_savings_all_outposts == RMul(co2_savings_per_outpost, num_outposts)
    IN  [co2_savings_per_outpost |-> co2_savings_per_outpost,
         co2_savings_all_outposts |-> co2_savings_all_outposts,
         co2_savings_lifetime |-> RMul(co2_savings_all_outposts, loan_years)]

\* src/OS4P.py lines 53-59
OS4P_base_params ==
    [num_outposts |-> R(5), fuel_consumption |-> R(25), interest_rate |-> R(5),
     loan_years |-> R(10), sla_premium |-> R(15)]

\* np.arange(start, stop, step) for integers and step > 0
Arange(start, stop, step) ==
    [i \in 1..((stop - start + step - 1) \div step) |-> R(start + (i - 1) * step)]

\* src/OS4P.py lines 62-66, in the order of the dict
OS4P_sensitivity_params ==
    <<[name |-> "num_outposts", values |-> Arange(1, 11, 1)],
      [name |-> "fuel_consumption", values |-> Arange(5, 55, 5)],
      [name |-> "loan_years", values |-> Arange(5, 21, 5)]>>

\* src/OS4P.py lines 76-88: one evaluation on a copy of the base case
Co2Pass(base_params, param_name, value) ==
    LET copy == [k \in DOMAIN base_params |-> base_params[k]]
        test_params == [copy EXCEPT ![param_name] = value]
    IN  [base |-> base_params, test_params |-> test_params,
         row |-> [param_value |-> value] @@
                 OS4P_Savings(test_params.num_outposts,
                              test_params.fuel_consumption,
                              test_params.loan_years)]

\* src/OS4P.py lines 53-68
Co2Start ==
    /\ sens.pc = "off"
    /\ sens' = [pc |-> "co2", given |-> OS4P_base_params,
                base |-> OS4P_base_params, at |-> 1, evals |-> << >>,
                results |-> << >>]
    /\ UNCHANGED <<pc, params, last, memo, frames, dcf, scoring, amort, session>>

\* src/OS4P.py lines 74-88: the next value of the parameter at hand
Co2Row ==
    /\ sens.pc = "co2"
    /\ sens.at <= Len(OS4P_sensitivity_params)
    /\ Len(sens.evals) < Len(OS4P_sensitivity_params[sens.at].values)
    /\ \E r \in {Co2Pass(sens.base, OS4P_sensitivity_params[sens.at].name,
                    OS4P_sensitivity_params[sens.at].values[Len(sens.evals) + 1])} :
          sens' = [sens EXCEPT !.base = r.base,
                               !.evals = Append(@, [test_params |-> r.test_params,
                                                    row |-> r.row])]
    /\ UNCHANGED <<pc, params, last, memo, frames, dcf, scoring, amort, session>>

\* src/OS4P.py line 90: results[param_name] = param_results
Co2Store ==
    /\ sens.pc = "co2"
    /\ sens.at <= Len(OS4P_sensitivity_params)
    /\ Len(sens.evals) = Len(OS4P_sensitivity_params[sens.at].values)
    /\ sens' = [sens EXCEPT !.results = Append(@, sens.evals),
                            !.evals = << >>,
                            !.at = @ + 1]
    /\ UNCHANGED <<pc, params, last, memo, frames, dcf, scoring, amort, session>>

\* src/OS4P.py line 92
Co2Return ==
    /\ sens.pc = "co2"
    /\ sens.at > Len(OS4P_sensitivity_params)
    /\ sens' = [sens EXCEPT !.pc = "report"]
    /\ UNCHANGED <<pc, params, last, memo, frames, dcf, scoring, amort, session>>

\* the widgets change and the script runs again
SensRerun ==
    /\ sens.pc \in {"table", "chart", "report", "ZeroDivisionError", "KeyError"}
    /\ sens' = SensOff
    /\ UNCHANGED <<pc, params, last, memo, frames, dcf, scoring, amort, session>>

NextSens ==
    \/ SensStart
    \/ SensRow
    \/ SensReturn
    \/ SensChart
    \/ Co2Start
    \/ Co2Row
    \/ Co2Store
    \/ Co2Return
    \/ SensRerun

SpecSens == Init /\ [][NextSens]_vars

(***************************************************************************)
(* The Innovation Fund scoring tab (src/OS4P_dashboard.py 826-861).  The   *)
(* tab reads the params dict and the record calculate_os4p returned in     *)
(* this run, and four sliders.  The dicts hold values the sidebar widgets  *)
(* allow (lines 491-548): at least one outpost and one generator, positive *)
(* emissions of the autonomous system, non-negative costs.                 *)
(***************************************************************************)
ScoreInputs ==
    {Put(Put(Put(b, "num_outposts", R(n)), "lifetime_years", l),
         "maintenance_emissions", m) :
        b \in {BaseParams, SensBase}, n \in 1..MaxOutposts,
        l \in {R(1), R(3)}, m \in {R(10), R(40), R(158), R(200)}}

\* lines 827-830: the slider positions drawn on, the ends of each range and
\* the default
DegreeValues == {9, 12, 15}

MaturityValues == {0, 10, 15}

ReplicabilityValues == {0, 10, 15}

BonusValues == {0, 2, 4}

RMin(a, b) == IF RLt(b, a) THEN b ELSE a

\* the tab with the absolute avoidance score left without its ceiling
ScoringTab_no_ceiling(p, results, degree_innovation, project_maturity, replicability, bonus_points) ==
    LET lifetime_years == p["lifetime_years"]
        threshold_abs == RMul(R(1000), RDiv(lifetime_years, R(10)))
        ghg_abs == results.ghg_abs_avoidance_lifetime
        absolute_score == RMul(R(2), RDiv(ghg_abs, threshold_abs))
        ghg_rel == results.ghg_rel_avoidance
        relative_score == IF RLe(R(75), ghg_rel) THEN R(5) ELSE R(0)
        quality_score ==
            IF RLe(R(75), ghg_rel)
            THEN RAdd(R(3), RMul(R(2), RMin(R(1), RDiv(RSub(ghg_rel, R(75)), R(25)))))
            ELSE R(0)
        ghg_emission_avoidance_score ==
            RAdd(RAdd(absolute_score, relative_score), quality_score)
        innovation_fund_score == results.innovation_fund_score
        cost_efficiency_score ==
            IF innovation_fund_score = Inf THEN R(0)
            ELSE RMul(RDiv(innovation_fund_score, R(12)), R(15))
    IN  [degree_innovation |-> degree_innovation,
         project_maturity |-> project_maturity,
         replicability |-> replicability,
         bonus_points |-> bonus_points,
         absolute_score |-> absolute_score,
         relative_score |-> relative_score,
         quality_score |-> quality_score,
         ghg_emission_avoidance_score |-> ghg_emission_avoidance_score,
         cost_efficiency_score |-> cost_efficiency_score,
         total_innovation_score |->
             RAdd(RAdd(RAdd(RAdd(RAdd(R(degree_innovation * 2),
                 ghg_emission_avoidance_score), R(project_maturity)),
                 R(replicability)), cost_efficiency_score), R(bonus_points))]

\* lines 833-852
ScoringTab(p, results, degree_innovation, project_maturity, replicability, bonus_points) ==
    LET lifetime_years == p["lifetime_years"]
        threshold_abs == RMul(R(1000), RDiv(lifetime_years, R(10)))
        ghg_abs == results.ghg_abs_avoidance_lifetime
        absolute_score == RMin(R(2), RMul(R(2), RDiv(ghg_abs, threshold_abs)))
        ghg_rel == results.ghg_rel_avoidance
        relative_score == IF RLe(R(75), ghg_rel) THEN R(5) ELSE R(0)
        quality_score ==
            IF RLe(R(75), ghg_rel)
            THEN RAdd(R(3), RMul(R(2), RMin(R(1), RDiv(RSub(ghg_rel, R(75)), R(25)))))
            ELSE R(0)
        ghg_emission_avoidance_score ==
            RAdd(RAdd(absolute_score, relative_score), quality_score)
        innovation_fund_score == results.innovation_fund_score
        cost_efficiency_score ==
            IF innovation_fund_score = Inf THEN R(0)
            ELSE RMul(RDiv(innovation_fund_score, R(12)), R(15))
    IN  [degree_innovation |-> degree_innovation,
         project_maturity |-> project_maturity,
         replicability |-> replicability,
         bonus_points |-> bonus_points,
         absolute_score |-> absolute_score,
         relative_score |-> relative_score,
         quality_score |-> quality_score,
         ghg_emission_avoidance_score |-> ghg_emission_avoidance_score,
         cost_efficiency_score |-> cost_efficiency_score,
         total_innovation_score |->
             RAdd(RAdd(RAdd(RAdd(RAdd(R(degree_innovation * 2),
                 ghg_emission_avoidance_score), R(project_maturity)),
                 R(replicability)), cost_efficiency_score), R(bonus_points))]

\* main, lines 645-690, with values the widgets allow
ScoreBuild ==
    /\ pc = "idle"
    /\ scoring.pc = "off"
    /\ \E p \in ScoreInputs : params' = p
    /\ pc' = "built"
    /\ UNCHANGED <<last, memo>>
    /\ UNCHANGED aux

\* lines 826-861: the tab is drawn from the results of line 692
ScoreTab ==
    /\ pc = "done"
    /\ last.fn = "calculate_os4p"
    /\ last.outcome = "ok"
    /\ scoring.pc = "off"
    /\ \E d \in DegreeValues, m \in MaturityValues, r \in ReplicabilityValues,
          b \in BonusValues :
       \E results \in {last.result} :
          scoring' = [pc |-> "shown"] @@ ScoringTab(params, results, d, m, r, b)
    /\ UNCHANGED <<pc, params, last, memo, frames, dcf, sens, amort, session>>

\* a slider is moved: the script runs again
ScoreRerun ==
    /\ scoring.pc = "shown"
    /\ scoring' = ScoreOff
    /\ pc' = "idle"
    /\ params' = NoParams
    /\ last' = NoCall
    /\ UNCHANGED <<memo, frames, dcf, sens, amort, session>>

NextScore ==
    \/ ScoreBuild
    \/ Calculate
    \/ ScoreTab
    \/ ScoreRerun

SpecScore == Init /\ [][NextScore]_vars

(***************************************************************************)
(* Debt repayment section of the Financial Analysis tab                    *)
(* (src/OS4P_dashboard.py 1068-1104), run on the params and the record of  *)
(* line 692.  One step per pass of the monthly loop.                       *)
(*                                                                         *)
(* results["monthly_debt_payment"] is a float: the quotient of line 111    *)
(* rounded to the nearest double, which lies below the exact quotient for  *)
(* some inputs and above it for others.  The record of the model holds the *)
(* exact quotient; the section reads it with a rounding error drawn from   *)
(* PaymentRounding (far larger than one of a double, to stay in TLC's      *)
(* integers).  payments, before, principal_payment and zero are history    *)
(* variables.                                                              *)
(***************************************************************************)
AmortInputs ==
    {Put(Put(Put(BaseParams, "num_outposts", R(n)), "loan_years", y),
         "non_unit_cost_pct", c) :
        n \in 1..MaxOutposts, y \in {R(1), R(2)}, c \in NonUnitCostPcts}

\* the error of the rounded payment: none, or a fraction of the payment to
\* either side; 2 * (1 + rate) ** months is 8192 for 12 months at rate 1
PaymentRounding(payment, monthly_rate, months) ==
    LET e == RDiv(payment, RMul(R(2), RPow(RAdd(R(1), monthly_rate), months)))
    IN  {RNeg(e), R(0), e}

\* a > b, by the sign of the difference
Exceeds(a, b) == RSub(a, b)[1] > 0

\* payoff_year_value of a debt not repaid within the loan term (None)
NotRepaid == 0

\* the balance left of debt pv after k payments pmt at the given rate # 0
Balance(rate, pmt, pv, k) ==
    RSub(RMul(pv, RPow(RAdd(R(1), rate), k)),
         RDiv(RMul(pmt, RSub(RPow(RAdd(R(1), rate), k), R(1))), rate))

\* lines 1074-1080: npf.nper(rate, -pmt, pv) is the real number of payments
\* after which the balance is 0; it exceeds months when the balance after
\* months payments is positive, else its twelfth rounded up is the first
\* year at whose end the balance is not positive.  nper is a quotient of two
\* float logarithms: when the balance is exactly 0 at the end of a year the
\* float may lie on either side of that year's last month, so the values
\* the section can get are a set.
PayoffYears(rate, pmt, pv, loan_years) ==
    IF Exceeds(Balance(rate, pmt, pv, loan_years * 12), R(0)) THEN {NotRepaid}
    ELSE LET y == CHOOSE y \in 1..loan_years :
                     /\ ~Exceeds(Balance(rate, pmt, pv, 12 * y), R(0))
                     /\ \A z \in 1..(y - 1) :
                           Exceeds(Balance(rate, pmt, pv, 12 * z), R(0))
         IN  IF RIsZero(Balance(rate, pmt, pv, 12 * y))
             THEN {y, IF y < loan_years THEN y + 1 ELSE NotRepaid}
             ELSE {y}

\* one month without the guard against overpayment
AmortPayment_no_clamp(remaining_principal, monthly_rate, monthly_debt_payment) ==
    LET interest_payment == RMul(remaining_principal, monthly_rate)
        principal_payment == RSub(monthly_debt_payment, interest_payment)
    IN  [interest_payment |-> interest_payment,
         principal_payment |-> principal_payment,
         remaining_principal |-> RSub(remaining_principal, principal_payment)]

\* lines 1091-1098: the payment of one month
AmortPayment(remaining_principal, monthly_rate, monthly_debt_payment) ==
    LET interest_payment == RMul(remaining_principal, monthly_rate)
        due == RSub(monthly_debt_payment, interest_payment)
        principal_payment ==
            IF Exceeds(due, remaining_principal) THEN remaining_principal ELSE due
    IN  [interest_payment |-> interest_payment,
         principal_payment |-> principal_payment,
         remaining_principal |-> RSub(remaining_principal, principal_payment)]

RECURSIVE RSum(_)
RSum(s) == IF s = << >> THEN R(0) ELSE RAdd(s[1], RSum(Tail(s)))

\* np.cumsum
CumSum(s) == [i \in 1..Len(s) |-> RSum(SubSeq(s, 1, i))]

\* main, lines 645-690
AmortBuild ==
    /\ pc = "idle"
    /\ amort.pc = "off"
    /\ \E p \in AmortInputs : params' = p
    /\ pc' = "built"
    /\ UNCHANGED <<last, memo>>
    /\ UNCHANGED aux

\* lines 1068-1085
AmortStart ==
    /\ pc = "done"
    /\ last.fn = "calculate_os4p"
    /\ last.outcome = "ok"
    /\ amort.pc = "off"
    /\ \E loan_years \in {params["loan_years"][1]} :
       \E monthly_rate \in {MonthlyRate(params["interest_rate"])} :
       \E debt_amount \in {last.result.debt} :
       \E e \in PaymentRounding(last.result.monthly_debt_payment, monthly_rate,
                                loan_years * 12) :
       \E payment \in {RAdd(last.result.monthly_debt_payment, e)} :
       \E payoff \in PayoffYears(monthly_rate, payment, debt_amount, loan_years) :
          amort' = [pc |-> "months",
                    loan_years |-> loan_years,
                    monthly_rate |-> monthly_rate,
                    debt_amount |-> debt_amount,
                    monthly_debt_payment |-> payment,
                    rounding |-> e,
                    payoff_year_value |-> payoff,
                    year |-> 1, m |-> 0,
                    remaining_principal |-> debt_amount,
                    principal_this_year |-> R(0),
                    interest_this_year |-> R(0),
                    annual_principal_repaid |-> << >>,
                    annual_interest_paid |-> << >>,
                    cumulative_debt_repaid |-> << >>,
                    payments |-> 0,
                    before |-> debt_amount,
                    principal_payment |-> R(0),
                    zero |-> NoResult]
    /\ UNCHANGED <<pc, params, last, memo, frames, dcf, sens, scoring, session>>

\* lines 1089-1101: a month in which something is still owed
AmortMonth ==
    /\ amort.pc = "months"
    /\ amort.year <= amort.loan_years
    /\ amort.m < 12
    /\ Exceeds(amort.remaining_principal, R(0))
    /\ \E pay \in {AmortPayment(amort.remaining_principal, amort.monthly_rate,
                                amort.monthly_debt_payment)} :
       \E principal \in {RAdd(amort.principal_this_year, pay.principal_payment)} :
       \E interest \in {RAdd(amort.interest_this_year, pay.interest_payment)} :
          amort' = [amort EXCEPT
                      !.m = @ + 1,
                      !.principal_this_year = principal,
                      !.interest_this_year = interest,
                      !.remaining_principal = pay.remaining_principal,
                      !.payments = @ + 1,
                      !.before = amort.remaining_principal,
                      !.principal_payment = pay.principal_payment,
                      !.zero = IF Exceeds(pay.remaining_principal, R(0)) THEN @
                               ELSE [principal |->
                                        RAdd(RSum(amort.annual_principal_repaid),
                                             principal),
                                     interest |->
                                        RAdd(RSum(amort.annual_interest_paid),
                                             interest)]]
    /\ UNCHANGED <<pc, params, last, memo, frames, dcf, sens, scoring, session>>

\* lines 1089-1090, 1102-1103: the twelve months are over or nothing is owed
\* (break); the sums of the year are appended
AmortYearEnd ==
    /\ amort.pc = "months"
    /\ amort.year <= amort.loan_years
    /\ amort.m = 12 \/ ~Exceeds(amort.remaining_principal, R(0))
    /\ amort' = [amort EXCEPT
                   !.annual_principal_repaid = Append(@, amort.principal_this_year),
                   !.annual_interest_paid = Append(@, amort.interest_this_year),
                   !.principal_this_year = R(0),
                   !.interest_this_year = R(0),
                   !.year = @ + 1,
                   !.m = 0]
    /\ UNCHANGED <<pc, params, last, memo, frames, dcf, sens, scoring, session>>

\* line 1104 and the chart of lines 1120-1142
AmortShow ==
    /\ amort.pc = "months"
    /\ amort.year > amort.loan_years
    /\ amort' = [amort EXCEPT
                   !.pc = "shown",
                   !.cumulative_debt_repaid = CumSum(amort.annual_principal_repaid)]
    /\ UNCHANGED <<pc, params, last, memo, frames, dcf, sens, scoring, session>>

\* a widget changes: the script runs again
AmortRerun ==
    /\ amort.pc = "shown"
    /\ amort' = AmortOff
    /\ pc' = "idle"
    /\ params' = NoParams
    /\ last' = NoCall
    /\ UNCHANGED <<memo, frames, dcf, sens, scoring, session>>

NextAmort ==
    \/ AmortBuild
    \/ Calculate
    \/ AmortStart
    \/ AmortMonth
    \/ AmortYearEnd
    \/ AmortShow
    \/ AmortRerun

SpecAmort == Init /\ [][NextAmort]_vars

(***************************************************************************)
(* The video gate (src/OS4P_dashboard.py 13-26 and 1425-1426).  Streamlit  *)
(* runs the script from the top for every event of a browser session;      *)
(* st.session_state lives as long as the session.  session.pc is the place *)
(* of the current run in the script, session.video_viewed the value of     *)
(* st.session_state["video_viewed"] ("unset" while the key is missing),    *)
(* session.shown what the run has put on the page, session.clicked whether *)
(* the run answers a click on the Continue button (st.button returns True  *)
(* only in that run).  The application of the else branch is the dashboard *)
(* call of a session: params built from the widgets, then calculate_os4p.  *)
(* session.events counts the user's events in the session, at most         *)
(* MaxEvents.                                                              *)
(***************************************************************************)
MaxEvents == 3

\* a gate that sets the flag to False at the start of every run
GateFlagInit_every_run ==
    /\ session.pc = "start"
    /\ session' = [session EXCEPT !.pc = "branch", !.video_viewed = "False"]
    /\ UNCHANGED <<pc, params, last, memo, frames, dcf, sens, scoring, amort>>

\* lines 14-15: if "video_viewed" not in st.session_state: ... = False
GateFlagInit ==
    /\ session.pc = "start"
    /\ session' = [session EXCEPT
                     !.pc = "branch",
                     !.video_viewed = IF @ = "unset" THEN "False" ELSE @]
    /\ UNCHANGED <<pc, params, last, memo, frames, dcf, sens, scoring, amort>>

\* lines 17-18: if not st.session_state["video_viewed"]: st.video("OS4P.mp4")
GateVideo ==
    /\ session.pc = "branch"
    /\ session.video_viewed # "True"
    /\ session' = [session EXCEPT !.pc = "button", !.shown = {"video"}]
    /\ UNCHANGED <<pc, params, last, memo, frames, dcf, sens, scoring, amort>>

\* line 19, st.button returns False: the run ends with the video and the
\* button on the page
GateButtonIdle ==
    /\ session.pc = "button"
    /\ ~session.clicked
    /\ session' = [session EXCEPT !.pc = "idle", !.shown = @ \cup {"button"}]
    /\ UNCHANGED <<pc, params, last, memo, frames, dcf, sens, scoring, amort>>

\* lines 19-20, st.button returns True:
\* st.session_state["video_viewed"] = True
GateContinue ==
    /\ session.pc = "button"
    /\ session.clicked
    /\ session' = [session EXCEPT !.pc = "viewed", !.shown = @ \cup {"button"},
                                  !.video_viewed = "True"]
    /\ UNCHANGED <<pc, params, last, memo, frames, dcf, sens, scoring, amort>>

\* lines 21-22: the Streamlit at hand has experimental_rerun; the run stops
\* and the script starts again at once
GateExperimentalRerun ==
    /\ session.pc = "viewed"
    /\ session' = [session EXCEPT !.pc = "start", !.clicked = FALSE]
    /\ UNCHANGED <<pc, params, last, memo, frames, dcf, sens, scoring, amort>>

\* lines 23-24: the Streamlit at hand has no experimental_rerun; the run
\* ends with a warning under the video
GateWarning ==
    /\ session.pc = "viewed"
    /\ session' = [session EXCEPT !.pc = "idle", !.shown = @ \cup {"warning"}]
    /\ UNCHANGED <<pc, params, last, memo, frames, dcf, sens, scoring, amort>>

\* line 25 and lines 1425-1426: the else branch defines the application and
\* calls main()
GateMain ==
    /\ session.pc = "branch"
    /\ session.video_viewed = "True"
    /\ session' = [session EXCEPT !.pc = "main", !.shown = {"application"}]
    /\ UNCHANGED <<pc, params, last, memo, frames, dcf, sens, scoring, amort>>

\* main, lines 645-690, in a run that has passed the gate
GateBuild ==
    /\ session.pc = "main"
    /\ SessionBuild

\* main, line 692, in a run that has passed the gate
GateCalculate ==
    /\ session.pc = "main"
    /\ Calculate

\* main returns and the run ends
GateMainEnd ==
    /\ session.pc = "main"
    /\ pc = "done"
    /\ session' = [session EXCEPT !.pc = "idle"]
    /\ pc' = "idle"
    /\ params' = NoParams
    /\ last' = NoCall
    /\ UNCHANGED <<memo, frames, dcf, sens, scoring, amort>>

\* the user clicks the Continue button that is on the page: a run that
\* answers the click
GateClick ==
    /\ session.pc = "idle"
    /\ "button" \in session.shown
    /\ session.events < MaxEvents
    /\ session' = [session EXCEPT !.pc = "start", !.clicked = TRUE,
                                  !.events = @ + 1]
    /\ UNCHANGED <<pc, params, last, memo, frames, dcf, sens, scoring, amort>>

\* any other event (a widget of the application changed, the script file
\* was saved): a run that answers no click on the button
GateEvent ==
    /\ session.pc = "idle"
    /\ session.events < MaxEvents
    /\ session' = [session EXCEPT !.pc = "start", !.clicked = FALSE,
                                  !.events = @ + 1]
    /\ UNCHANGED <<pc, params, last, memo, frames, dcf, sens, scoring, amort>>

\* the page is loaded again: a new session with an empty st.session_state
GateReload ==
    /\ session.pc = "idle"
    /\ session' = NewSession
    /\ UNCHANGED <<pc, params, last, memo, frames, dcf, sens, scoring, amort>>

NextGate ==
    \/ GateFlagInit
    \/ GateVideo
    \/ GateButtonIdle
    \/ GateContinue
    \/ GateExperimentalRerun
    \/ GateWarning
    \/ GateMain
    \/ GateBuild
    \/ GateCalculate
    \/ GateMainEnd
    \/ GateClick
    \/ GateEvent
    \/ GateReload

SpecGate == Init /\ [][NextGate]_vars

(***************************************************************************)
(* Properties.                                                             *)
(***************************************************************************)
IsDash == pc = "done" /\ last.fn = "calculate_os4p"

IsOS4P == pc = "done" /\ last.fn = "OS4P.calculate_os4p"

IsScore == pc = "done" /\ last.fn = "calculate_innovation_fund_score"

Positive(a) == RLt(R(0), a)

\* the dashboard call got an input the specification accepts
ValidDashInput ==
    /\ Positive(last.args["num_outposts"])
    /\ Positive(last.args["loan_years"])
    /\ "annual_energy_production" \in DOMAIN last.args
    /\ Positive(last.args["annual_energy_production"])

\* C1: with interest_rate = 0 (outposts > 0, loan term > 0) calculate_os4p
\* returns normally and monthly_debt_payment = debt / (loan_years * 12); no
\* division by zero is raised.  Stated for both variants.
C1_ZeroRatePayment ==
    /\ (IsDash /\ ValidDashInput /\ RIsZero(last.args["interest_rate"]))
          => /\ last.outcome = "ok"
             /\ last.result.monthly_debt_payment =
                   RDiv(Costs(last.args).debt,
                        RMul(last.args["loan_years"], R(12)))
    /\ (IsOS4P /\ Positive(last.args.num_outposts) /\ Positive(last.args.loan_years)
          /\ RIsZero(last.args.interest_rate))
          => /\ last.outcome = "ok"
             /\ last.result.monthly_debt_payment =
                   RDiv(RMul(RMul(R(170000), last.args.num_outposts), Frac(1, 2)),
                        RMul(last.args.loan_years, R(12)))

\* C2: with outposts <= 0, loan term <= 0 or annual energy production <= 0
\* calculate_os4p ends in InvalidInputError: it returns no record and raises
\* no other error.
C2_InvalidInputRejected ==
    /\ (IsDash /\ "annual_energy_production" \in DOMAIN last.args
          /\ (\/ RLe(last.args["num_outposts"], R(0))
              \/ RLe(last.args["loan_years"], R(0))
              \/ RLe(last.args["annual_energy_production"], R(0))))
          => last.outcome = "InvalidInputError"
    /\ (IsOS4P /\ (\/ RLe(last.args.num_outposts, R(0))
                   \/ RLe(last.args.loan_years, R(0))))
          => last.outcome = "InvalidInputError"

\* C3: when the fleet-wide absolute avoidance is <= 0, calculate_os4p returns
\* without error, cost_efficiency_per_ton is the infinite value and
\* innovation_fund_score is 0; when manned and autonomous emissions are equal
\* the per-outpost, fleet and lifetime avoidance are all 0.
C3_ZeroAvoidanceSentinel ==
    (IsDash /\ ValidDashInput
       /\ RLe(Emissions(last.args).ghg_abs_avoidance_all_outposts, R(0)))
    => /\ last.outcome = "ok"
       /\ last.result.cost_efficiency_per_ton = Inf
       /\ last.result.innovation_fund_score = R(0)
       /\ (last.result.manned_co2_emissions = last.result.autonomous_co2_emissions
             => /\ last.result.ghg_abs_avoidance_per_outpost = R(0)
                /\ last.result.ghg_abs_avoidance_all_outposts = R(0)
                /\ last.result.ghg_abs_avoidance_lifetime = R(0))

\* s is x rounded to the nearest half point
NearestHalf(x, s) ==
    /\ RMul(s, R(2))[2] = 1
    /\ RLe(RSub(s, x), Frac(1, 4))
    /\ RLe(RSub(x, s), Frac(1, 4))

\* C4: the score is 12 - 12*ratio/2000 rounded to the nearest half point for
\* 0 <= ratio <= 2000 and 0 for ratio > 2000; ratio 0 gives 12, 1000 gives 6,
\* 2000 gives 0, 4000 gives 0.
C4_ScoreFormula ==
    IsScore =>
      LET ratio == last.args
          s     == last.result
      IN  /\ (RLe(R(0), ratio) /\ RLe(ratio, R(2000)))
                => NearestHalf(RSub(R(12), RDiv(RMul(R(12), ratio), R(2000))), s)
          /\ RLt(R(2000), ratio) => s = R(0)
          /\ ratio = R(0) => s = R(12)
          /\ ratio = R(1000) => s = R(6)
          /\ ratio = R(2000) => s = R(0)
          /\ ratio = R(4000) => s = R(0)

\* ratio 125: 11.25 lies between two half points and is rounded to 11
C4_Witness ==
    /\ IsScore
    /\ last.args = R(125)
    /\ last.result = R(11)

\* C5: for every ratio, negative ratios and the infinite value included, the
\* score is at least 0, at most 12 and a whole multiple of 0.5.
C5_ScoreBounded ==
    IsScore => /\ RLe(R(0), last.result)
               /\ RLe(last.result, R(12))
               /\ RMul(last.result, R(2))[2] = 1

C7_ScaleLinearity ==
    (IsDash /\ last.outcome = "ok" /\ Positive(last.args["num_outposts"]))
    => LET twice == calculate_os4p(Put(last.args, "num_outposts",
                                       RMul(R(2), last.args["num_outposts"])))
       IN  /\ twice.outcome = "ok"
           /\ twice.result.total_capex = RMul(R(2), last.result.total_capex)
           /\ twice.result.annual_opex = RMul(R(2), last.result.annual_opex)
           /\ twice.result.ghg_abs_avoidance_all_outposts =
                 RMul(R(2), last.result.ghg_abs_avoidance_all_outposts)

C7_Witness ==
    /\ IsDash
    /\ last.outcome = "ok"
    /\ last.args["num_outposts"] = R(2)
    /\ last.result.total_capex = R(8)
    /\ last.result.annual_opex = R(6)
    /\ Positive(last.result.ghg_abs_avoidance_all_outposts)

\* payment * (1 - (1+r)^(-n)) / r = debt, r = rate/100/12, n = years*12
AmortizationIdentity(payment, debt, interest_rate, loan_years) ==
    LET r == RDiv(interest_rate, R(1200))
        n == RMul(loan_years, R(12))[1]
    IN  RDiv(RMul(payment, RSub(R(1), RPow(RAdd(R(1), r), -n))), r) = debt

\* C8: for every debt, positive annual interest rate and positive loan term
\* the monthly_debt_payment satisfies the amortization identity
\* payment * (1 - (1+r)^(-n)) / r = debt.  Stated for both variants.
C8_AmortizationIdentity ==
    /\ (IsDash /\ last.outcome = "ok" /\ Positive(last.args["interest_rate"])
          /\ Positive(last.args["loan_years"]))
          => AmortizationIdentity(last.result.monthly_debt_payment,
                 last.result.debt, last.args["interest_rate"],
                 last.args["loan_years"])
    /\ (IsOS4P /\ last.outcome = "ok" /\ Positive(last.args.interest_rate)
          /\ Positive(last.args.loan_years))
          => AmortizationIdentity(last.result.monthly_debt_payment,
                 RMul(RMul(R(170000), last.args.num_outposts), Frac(1, 2)),
                 last.args.interest_rate, last.args.loan_years)

C8_Witness ==
    /\ IsDash
    /\ last.outcome = "ok"
    /\ last.args["interest_rate"] = R(600)
    /\ last.args["loan_years"] = R(1)
    /\ last.result.debt = R(4)
    /\ Positive(last.result.monthly_debt_payment)

\* C9: a call of calculate_os4p leaves the params dict it was given unchanged
\* (same keys, same values); its only effect is the returned record.
C9_ParamsUnchanged ==
    IsDash => /\ params = last.args
              /\ DOMAIN params = DOMAIN last.args

C9_Witness ==
    /\ IsDash
    /\ last.outcome = "ok"
    /\ "number_diesel_generators" \notin DOMAIN params
    /\ "non_unit_cost_pct" \notin DOMAIN params

\* C10: every call of calculate_os4p returns a record holding every metric
\* field, breakdowns included, or fails with an error; it never returns a
\* record from which a field is missing.
C10_CompleteRecord ==
    IsDash =>
      \/ /\ last.outcome = "ok"
         /\ DOMAIN last.result = MetricFields
         /\ DOMAIN last.result.capex_breakdown = {"Microgrid", "Drones"}
         /\ DOMAIN last.result.opex_breakdown =
               {"Maintenance", "Communications", "Security"}
         /\ DOMAIN last.result.co2_factors =
               {"Manned_Emissions", "Autonomous_Emissions"}
      \/ /\ last.outcome \in {"ZeroDivisionError", "KeyError"}
         /\ last.result = NoResult

C10_Witness ==
    /\ IsDash
    /\ last.outcome = "ok"
    /\ "lcoe" \in DOMAIN last.result
    /\ "payback_years" \in DOMAIN last.result

\* C11: when calls of calculate_os4p run concurrently with their steps
\* interleaved in any order, every finished call has the outcome and record
\* it has when run alone on its input, and no call reads or writes a
\* location (a local name of a frame) that another call writes.
C11_Reentrant ==
    /\ \A i \in Calls :
          frames[i].pc = "done" =>
             [outcome |-> frames[i].outcome, result |-> frames[i].result]
                = calculate_os4p(ConcDicts[frames[i].dict])
    /\ \A i \in Calls : \A j \in Calls \ {i} :
          frames[j].writes \cap (frames[i].reads \cup frames[i].writes) = {}

\* two calls on different inputs, each stepping while the other was inside
\* the function, have both returned a record
C11_Witness ==
    /\ frames[1].pc = "done" /\ frames[2].pc = "done"
    /\ frames[1].outcome = "ok" /\ frames[2].outcome = "ok"
    /\ frames[1].dict # frames[2].dict
    /\ frames[1].overlapped /\ frames[2].overlapped
    /\ frames[1].result # frames[2].result
    /\ frames[1].writes # {} /\ frames[2].writes # {}

\* C12: when CAPEX is entered through the detailed breakdown, the values
\* recorded in params["detailed_capex"] sum to the per-outpost CAPEX
\* (microgrid_capex + drones_capex) that calculate_os4p uses and returns as
\* total_capex_per_outpost.
C12_BreakdownSumsToAggregate ==
    (IsDash /\ last.outcome = "ok" /\ "detailed_capex" \in DOMAIN last.args) =>
        /\ SumValues(last.args["detailed_capex"])
              = RAdd(last.args["microgrid_capex"], last.args["drones_capex"])
        /\ SumValues(last.args["detailed_capex"])
              = last.result.total_capex_per_outpost

\* C13: calculate_os4p computes daily_fuel_consumption = (sum over the three
\* vessel classes of count * fuel rate) * patrol hours + generator fuel rate
\* * generator hours * generator count + auxiliary vehicle count * auxiliary
\* fuel rate * patrol hours, manned_co2_emissions = daily_fuel_consumption *
\* operating_days_per_year * co2_factor, and autonomous_co2_emissions =
\* maintenance_emissions whatever the fuel inputs.  In the OS4P.py variant
\* (one vessel at 8 h, one 2.5 L/h generator at 24 h, 300 days, factor 1.0,
\* 1594.3 kg) the values show in co2_savings_per_outpost.
C13_FuelAndEmissions ==
    /\ (IsDash /\ last.outcome = "ok") =>
          LET a == last.args
              hours == a["hours_per_day_base"]
              vessels ==
                  RAdd(RAdd(RMul(a["num_large_patrol_boats"], a["large_patrol_fuel"]),
                            RMul(a["num_rib_boats"], a["rib_fuel"])),
                       RMul(a["num_small_patrol_boats"], a["small_patrol_fuel"]))
              generator_count ==
                  IF "number_diesel_generators" \in DOMAIN a
                  THEN a["number_diesel_generators"] ELSE R(1)
              generators ==
                  RMul(RMul(a["genset_fuel_per_hour"], a["genset_operating_hours"]),
                       generator_count)
              vehicles ==
                  RMul(RMul(a["num_ms240_gd_vehicles"],
                            a["ms240_gd_fuel_consumption"]), hours)
              daily == RAdd(RAdd(RMul(vessels, hours), generators), vehicles)
          IN  /\ last.result.daily_fuel_consumption = daily
              /\ last.result.manned_co2_emissions
                    = RMul(RMul(daily, a["operating_days_per_year"]), a["co2_factor"])
              /\ last.result.autonomous_co2_emissions = a["maintenance_emissions"]
    /\ (IsOS4P /\ last.outcome = "ok") =>
          LET daily == RAdd(RMul(last.args.fuel_consumption, R(8)), R(60))
              manned == RMul(daily, R(300))
          IN  last.result.co2_savings_per_outpost
                 = RDiv(RSub(manned, Frac(15943, 10)), R(1000))

\* a call with two generators, all three vessel classes and a vehicle:
\* (3 + 2*2 + 1)*3 + 0.5*4*2 + 1*1*3 = 31 L a day, 31*10*2 = 620 kg a year
C13_Witness ==
    /\ IsDash /\ last.outcome = "ok"
    /\ "number_diesel_generators" \in DOMAIN last.args
    /\ last.args["number_diesel_generators"] = R(2)
    /\ last.result.daily_fuel_consumption = R(31)
    /\ last.result.manned_co2_emissions = R(620)
    /\ last.result.autonomous_co2_emissions = R(158)

\* C14 as stated: ghg_rel_avoidance is 0 when manned_co2_emissions is 0 and
\* (manned - autonomous) / manned * 100 for every other value of
\* manned_co2_emissions.
C14_RelAvoidanceAnyNonZero ==
    (IsDash /\ last.outcome = "ok") =>
        LET manned == last.result.manned_co2_emissions
            autonomous == last.result.autonomous_co2_emissions
        IN  last.result.ghg_rel_avoidance
               = IF RIsZero(manned) THEN R(0)
                 ELSE RMul(RDiv(RSub(manned, autonomous), manned), R(100))

\* C14 amended: ghg_rel_avoidance is 0 when manned_co2_emissions is 0 or
\* negative and (manned - autonomous) / manned * 100 when it is positive; a
\* call with manned_co2_emissions = 0 divides by zero only in the payment,
\* fee or LCOE lines (zero amortization denominator, zero outposts, zero
\* energy), never in the relative avoidance.
C14_RelAvoidance ==
    /\ (IsDash /\ last.outcome = "ok") =>
          LET manned == last.result.manned_co2_emissions
              autonomous == last.result.autonomous_co2_emissions
          IN  last.result.ghg_rel_avoidance
                 = IF RLt(R(0), manned)
                   THEN RMul(RDiv(RSub(manned, autonomous), manned), R(100))
                   ELSE R(0)
    /\ (IsDash /\ last.outcome = "ZeroDivisionError"
           /\ RIsZero(Emissions(last.args).manned_co2_emissions)) =>
          \/ RIsZero(AmortDenominator(MonthlyRate(last.args["interest_rate"]),
                                      NumMonths(last.args["loan_years"])))
          \/ RIsZero(last.args["num_outposts"])
          \/ RIsZero(last.args["annual_energy_production"])

\* a call with no vessel, vehicle or generator hour returns a record with
\* manned emissions 0 and relative avoidance 0 while autonomous emissions
\* are 158 kg
C14_Witness ==
    /\ IsDash /\ last.outcome = "ok"
    /\ RIsZero(last.result.manned_co2_emissions)
    /\ last.result.autonomous_co2_emissions = R(158)
    /\ last.result.ghg_rel_avoidance = R(0)

\* C15: total_pilot_cost = total_capex * 1.25 * (1 + non_unit_cost_pct/100),
\* total_grant = 0.60 * total_pilot_cost, debt = total_pilot_cost -
\* total_grant, hence total_grant + debt = total_pilot_cost, and with zero
\* overhead debt = 0.40 * (total_capex * 1.25).  OS4P.py has no overhead and
\* returns no debt: its payment is the payment on 0.40 * (total_capex * 1.25).
C15_PilotCostGrantDebt ==
    /\ (IsDash /\ last.outcome = "ok") =>
          LET r == last.result
              pct == IF "non_unit_cost_pct" \in DOMAIN last.args
                     THEN last.args["non_unit_cost_pct"] ELSE R(0)
              marked_up == RMul(r.total_capex, Frac(125, 100))
          IN  /\ r.total_pilot_cost
                    = RMul(marked_up, RAdd(R(1), RDiv(pct, R(100))))
              /\ r.total_grant = RMul(Frac(60, 100), r.total_pilot_cost)
              /\ r.debt = RSub(r.total_pilot_cost, r.total_grant)
              /\ RAdd(r.total_grant, r.debt) = r.total_pilot_cost
              /\ RIsZero(pct) => r.debt = RMul(Frac(40, 100), marked_up)
    /\ (IsDash /\ last.outcome = "ZeroDivisionError") =>
          \* the call raised after line 107: the relations hold of its locals
          LET c == Costs(last.args)
          IN  /\ c.total_grant = RMul(Frac(60, 100), c.total_pilot_cost)
              /\ RAdd(c.total_grant, c.debt) = c.total_pilot_cost
    /\ (IsOS4P /\ last.outcome = "ok") =>
          LET total_capex == RMul(R(170000), last.args.num_outposts)
              debt == RMul(Frac(40, 100), RMul(total_capex, Frac(125, 100)))
          IN  last.result.monthly_debt_payment
                 = MonthlyPayment(debt, MonthlyRate(last.args.interest_rate),
                                  NumMonths(last.args.loan_years)).result

\* two outposts of CAPEX 4 with 100 % overhead: pilot cost 8 * 1.25 * 2 = 20,
\* grant 12, debt 8
C15_Witness ==
    /\ IsDash /\ last.outcome = "ok"
    /\ last.result.total_capex = R(8)
    /\ last.result.total_pilot_cost = R(20)
    /\ last.result.total_grant = R(12)
    /\ last.result.debt = R(8)

\* per-outpost annual OPEX the dashboard admits (maintenance + communications
\* + security at their lowest and at their default values); OS4P.py has no
\* OPEX input
OS4P_OpexValues == {R(1000), R(3000)}

\* the fee formula of the dashboard variant (lines 114-117)
DashFeeFormula ==
    (IsDash /\ last.outcome = "ok") =>
        LET r == last.result
            a == last.args
            sla_multiplier == RAdd(R(1), RDiv(a["sla_premium"], R(100)))
        IN  /\ r.monthly_fee_unit
                  = RMul(RAdd(RDiv(r.monthly_debt_payment, a["num_outposts"]),
                              RDiv(r.annual_opex_per_outpost, R(12))),
                         sla_multiplier)
            /\ r.annual_fee_unit = RMul(R(12), r.monthly_fee_unit)
            /\ r.lifetime_fee_total
                  = RMul(RMul(r.annual_fee_unit, a["num_outposts"]), a["loan_years"])

\* C16: in every calculate_os4p variant monthly_fee_unit = (monthly_debt_payment
\* / num_outposts + annual_opex_per_outpost / 12) * (1 + sla_premium/100); in
\* the dashboard variant annual_fee_unit = 12 * monthly_fee_unit and
\* lifetime_fee_total = annual_fee_unit * num_outposts * loan_years.
C16_FeeFormula ==
    /\ DashFeeFormula
    /\ (IsOS4P /\ last.outcome = "ok") =>
          \E annual_opex_per_outpost \in OS4P_OpexValues :
             last.result.monthly_fee_unit
                = RMul(RAdd(RDiv(last.result.monthly_debt_payment,
                                 last.args.num_outposts),
                            RDiv(annual_opex_per_outpost, R(12))),
                       RAdd(R(1), RDiv(last.args.sla_premium, R(100))))

\* the two argument sets agree on everything but the loan term
SameButLoanTerm(a, b) ==
    /\ DOMAIN a = DOMAIN b
    /\ \A k \in DOMAIN a \ {"loan_years"} : a[k] = b[k]
    /\ a["loan_years"] # b["loan_years"]

\* the lifetime absolute avoidance of a returned record, in either variant
LifetimeAvoidance(c) ==
    IF c.fn = "calculate_os4p" THEN c.result.ghg_abs_avoidance_lifetime
    ELSE c.result.co2_savings_lifetime

\* the dashboard variant: lifetime avoidance is the fleet-wide avoidance times
\* lifetime_years (lines 84-86)
DashLifetimeAvoidance ==
    /\ (IsDash /\ last.outcome = "ok") =>
          last.result.ghg_abs_avoidance_lifetime
             = RMul(last.result.ghg_abs_avoidance_all_outposts,
                    last.args["lifetime_years"])
    /\ (IsDash /\ last.outcome = "ok" /\ memo.fn = "calculate_os4p"
           /\ memo.outcome = "ok" /\ SameButLoanTerm(memo.args, last.args)) =>
          LifetimeAvoidance(memo) = LifetimeAvoidance(last)

\* C17: the lifetime absolute avoidance returned by calculate_os4p is the
\* fleet-wide annual avoidance times the asset lifetime in years, and two
\* calls that differ in the loan term alone (asset lifetime, where the variant
\* has one, and every other input equal) return the same lifetime avoidance.
C17_LifetimeAvoidance ==
    /\ DashLifetimeAvoidance
    /\ (IsOS4P /\ last.outcome = "ok" /\ memo.fn = "OS4P.calculate_os4p"
           /\ memo.outcome = "ok" /\ SameButLoanTerm(memo.args, last.args)) =>
          LifetimeAvoidance(memo) = LifetimeAvoidance(last)

\* C18: for an accepted input the capital recovery factor used for LCOE is
\* 1/n when the rate r is 0 and r(1+r)^n / ((1+r)^n - 1) otherwise (n the
\* loan term in years), and the call returns lcoe = (total_capex_per_outpost
\* * CRF + annual_opex_per_outpost) / annual_energy_production; at rate 0 the
\* annualized CAPEX is total_capex_per_outpost / n, not 0.
C18_LcoeCapitalRecovery ==
    (IsDash /\ ValidDashInput) =>
        LET a == last.args
            r == RDiv(a["interest_rate"], R(100))
            n == a["loan_years"]
            growth == RPow(RAdd(R(1), r), n[1])
            CRF == IF RIsZero(r) THEN RDiv(R(1), n)
                   ELSE RDiv(RMul(r, growth), RSub(growth, R(1)))
            c == Costs(a)
        IN  /\ CapitalRecoveryFactor(r, n) = CRF
            /\ last.outcome = "ok"
            /\ last.result.lcoe
                  = RDiv(RAdd(RMul(c.total_capex_per_outpost, CRF),
                              c.annual_opex_per_outpost),
                         a["annual_energy_production"])

RECURSIVE DiscountedSum(_, _)
\* the sum over t = 1..Len(flows) of flows[t] * (1 + r)^(-t)
DiscountedSum(flows, r) ==
    IF flows = << >> THEN R(0)
    ELSE RAdd(DiscountedSum(SubSeq(flows, 1, Len(flows) - 1), r),
              RMul(flows[Len(flows)], RPow(RAdd(R(1), r), -Len(flows))))

\* -total_capex plus the discounted FCFF of the years 1..t of the table
CumulativeDiscounted(t) ==
    RAdd(RNeg(DcfTotalCapex(dcf.in)),
         DiscountedSum([k \in 1..t |-> dcf.rows[k].FCFF],
                       RDiv(dcf.in.interest_rate, R(100))))

\* C19: in the detailed cash-flow model the payback period shown is the
\* smallest year t in 1..lifetime for which -total_capex plus the discounted
\* FCFF of the years 1..t is >= 0, and it is 'Not achieved' exactly when no
\* year of the lifetime reaches a non-negative value; the running sum of the
\* payback loop is the table's Cumulative CF column.
C19_PaybackFirstNonNegativeYear ==
    /\ (dcf.pc = "payback" /\ dcf.idx > 1) =>
          /\ dcf.cum_cash = dcf.rows[dcf.idx - 1].CumulativeCF
          /\ dcf.cum_cash = CumulativeDiscounted(dcf.idx - 1)
    /\ dcf.pc = "shown" =>
          LET reached == {t \in 1..dcf.in.lifetime_years :
                             RLe(R(0), CumulativeDiscounted(t))}
          IN  /\ Len(dcf.rows) = dcf.in.lifetime_years
              /\ (dcf.payback = NotAchieved) <=> (reached = {})
              /\ reached # {} =>
                    /\ dcf.payback \in reached
                    /\ \A t \in reached : dcf.payback <= t
                    /\ dcf.rows[dcf.payback].CumulativeCF
                          = CumulativeDiscounted(dcf.payback)

\* payback in year 2 of 3: the first year ends negative, the second and the
\* third do not
C19_Witness ==
    /\ dcf.pc = "shown"
    /\ dcf.in.lifetime_years = 3
    /\ dcf.payback = 2
    /\ RLt(dcf.rows[1].CumulativeCF, R(0))
    /\ RLe(R(0), dcf.rows[2].CumulativeCF)
    /\ RLe(R(0), dcf.rows[3].CumulativeCF)

\* C20: the NPV of each cash-flow analysis is the year-0 flow (minus the
\* initial investment) plus the sum over the years t = 1..horizon of the
\* year's cash flow times (1+r)^(-t); in the detailed model the NPV equals
\* the Cumulative CF of the last year of the table.
C20_NpvDiscountedSum ==
    dcf.pc \in {"payback", "shown"} =>
        LET in == dcf.in
            r == RDiv(in.interest_rate, R(100))
            initial_investment ==
                RMul(RAdd(in.microgrid_capex, in.drones_capex), in.num_outposts)
        IN  /\ dcf.npv
                  = RAdd(RNeg(initial_investment),
                         DiscountedSum([t \in 1..in.loan_years |->
                                           SimpleCashFlow(in)], r))
            /\ dcf.npv_value
                  = RAdd(RNeg(DcfTotalCapex(in)),
                         DiscountedSum([t \in 1..in.lifetime_years |->
                                           dcf.rows[t].FCFF], r))
            /\ dcf.npv_value = dcf.rows[Len(dcf.rows)].CumulativeCF

\* a three-year table with tax and revenue growth whose NPV is positive while
\* the NPV of the simple analysis over two loan years is negative
C20_Witness ==
    /\ dcf.pc = "shown"
    /\ Len(dcf.rows) = 3
    /\ dcf.in.loan_years = 2
    /\ dcf.in.tax_rate = Frac(1, 4)
    /\ dcf.in.revenue_growth_rate = Frac(1, 8)
    /\ RLt(R(0), dcf.npv_value)
    /\ RLt(dcf.npv, R(0))
    /\ dcf.npv_value = dcf.rows[3].CumulativeCF

\* C21: for every row of a sensitivity analysis the Innovation Fund score that
\* create_innovation_fund_score_chart plots equals the innovation_fund_score
\* calculate_os4p returned for that row's parameters (the score of
\* total_grant divided by the row's fleet-wide avoidance).
C21_ChartScoreIsRowScore ==
    sens.pc = "chart" =>
        \A i \in 1..Len(sens.rows) :
            sens.plotted[i] = sens.rows[i].Innovation_Fund_Score

\* the dict base with only the entry of key p set to v
Replaced(base, p, v) ==
    [k \in DOMAIN base \cup {p} |-> IF k = p THEN v ELSE base[k]]

\* C28: perform_sensitivity_analysis leaves base_params as it was given (also
\* when a call raises); the rows appended so far are in the order of the
\* values, row i holding values[i] and the metrics calculate_os4p returns for
\* base_params with only the varied parameter replaced by values[i]; the table
\* returned has one row per value.  sensitivity_analysis_co2 of OS4P.py keeps
\* its base case, evaluates test parameters that differ from the base case in
\* no key but the varied one, which holds the value, and returns one
\* evaluation per value of each of the three parameters.
C28_SensitivityFrame ==
    /\ sens.pc \in {"loop", "table", "chart", "ZeroDivisionError", "KeyError"} =>
          /\ sens.base = sens.given
          /\ Len(sens.rows) <= Len(sens.values)
          /\ \A i \in 1..Len(sens.rows) :
             \A d \in {Replaced(sens.given, sens.param, sens.values[i])} :
             \A c \in {calculate_os4p(d)} :
                /\ c.outcome = "ok"
                /\ sens.rows[i] = SensRowOf(sens.values[i], c.result)
    /\ sens.pc \in {"table", "chart"} => Len(sens.rows) = Len(sens.values)
    /\ sens.pc \in {"co2", "report"} =>
          /\ sens.base = OS4P_base_params
          /\ sens.given = OS4P_base_params
          /\ \A g \in 1..Len(sens.results) :
                Len(sens.results[g]) = Len(OS4P_sensitivity_params[g].values)
          /\ \A g \in 1..Len(OS4P_sensitivity_params) :
             \A evals \in {IF g <= Len(sens.results) THEN sens.results[g]
                           ELSE IF g = sens.at THEN sens.evals ELSE << >>} :
             \A i \in 1..Len(evals) :
                /\ DOMAIN evals[i].test_params = DOMAIN OS4P_base_params
                /\ \A k \in DOMAIN OS4P_base_params :
                      evals[i].test_params[k] =
                         IF k = OS4P_sensitivity_params[g].name
                         THEN OS4P_sensitivity_params[g].values[i]
                         ELSE OS4P_base_params[k]
                /\ evals[i].row.param_value = OS4P_sensitivity_params[g].values[i]
    /\ sens.pc = "report" => Len(sens.results) = Len(OS4P_sensitivity_params)

\* a table of three rows for three different fuel rates has been returned for
\* a dict that has no generator count
C28_Witness ==
    /\ sens.pc = "table"
    /\ Len(sens.rows) = 3
    /\ sens.param = "large_patrol_fuel"
    /\ sens.rows[1].Parameter_Value # sens.rows[2].Parameter_Value
    /\ "number_diesel_generators" \notin DOMAIN sens.given

\* C22: for every combination of slider positions and calculated results the
\* Total Innovation Fund Score of the scoring tab is at most 91, and at most
\* 87 when the bonus points are 0; its GHG Emission Avoidance Potential
\* component is at most 12 and its Cost Efficiency component at most 15.
C22_TotalScoreBounded ==
    scoring.pc = "shown" =>
        /\ RLe(scoring.total_innovation_score, R(91))
        /\ scoring.bonus_points = 0 => RLe(scoring.total_innovation_score, R(87))
        /\ RLe(scoring.ghg_emission_avoidance_score, R(12))
        /\ RLe(scoring.cost_efficiency_score, R(15))

\* all sliders at their upper end, the absolute avoidance score at its
\* ceiling and the cost efficiency component at 15
C22_Witness ==
    /\ scoring.pc = "shown"
    /\ scoring.degree_innovation = 15
    /\ scoring.project_maturity = 15
    /\ scoring.replicability = 15
    /\ scoring.bonus_points = 4
    /\ scoring.absolute_score = R(2)
    /\ scoring.relative_score = R(5)
    /\ scoring.cost_efficiency_score = R(15)
    /\ RLt(R(90), scoring.total_innovation_score)

\* the principal booked so far in the amortization simulation
PrincipalBooked == RAdd(RSum(amort.annual_principal_repaid), amort.principal_this_year)

\* the interest booked so far in the amortization simulation
InterestBooked == RAdd(RSum(amort.annual_interest_paid), amort.interest_this_year)

\* C23: at every step of the monthly amortization simulation
\* remaining_principal >= 0, the principal paid in a month does not exceed the
\* principal that remained before that payment, and debt = remaining_principal
\* + all principal paid so far; from the payment that brings
\* remaining_principal to 0 on, the principal and the interest booked stay as
\* they were after that payment.
C23_AmortizationInvariant ==
    amort.pc \in {"months", "shown"} =>
        /\ ~Exceeds(R(0), amort.remaining_principal)
        /\ ~Exceeds(amort.principal_payment, amort.before)
        /\ amort.debt_amount = RAdd(amort.remaining_principal, PrincipalBooked)
        /\ amort.zero # NoResult =>
              /\ RIsZero(amort.remaining_principal)
              /\ PrincipalBooked = amort.zero.principal
              /\ InterestBooked = amort.zero.interest

\* a payment that had to be cut to the principal still owed has brought the
\* debt to 0 and the year has been closed after it
C23_Witness ==
    /\ amort.pc = "months"
    /\ amort.zero # NoResult
    /\ amort.payments = 12 * amort.loan_years
    /\ amort.principal_payment = amort.before
    /\ Exceeds(RSub(amort.monthly_debt_payment,
                    RMul(amort.before, amort.monthly_rate)), amort.before)
    /\ amort.year > amort.loan_years

\* C24: with the monthly payment calculate_os4p computed for the same debt,
\* rate and loan term, the amortization simulation ends with
\* remaining_principal = 0 after loan_years * 12 monthly payments, the last
\* entry of cumulative_debt_repaid equals debt, and the debt is reported as
\* repaid in the final year of the loan term.
C24_RepaidAtEndOfTerm ==
    amort.pc = "shown" =>
        /\ RIsZero(amort.remaining_principal)
        /\ amort.payments = 12 * amort.loan_years
        /\ amort.cumulative_debt_repaid[amort.loan_years] = amort.debt_amount
        /\ amort.payoff_year_value = amort.loan_years

\* C25: the yearly revenue of both cash-flow analyses in year 1 is
\* annual_fee_unit * num_outposts, the total annual customer fee, so that the
\* revenue of the years of the loan term without growth sums to
\* lifetime_fee_total = annual_fee_unit * num_outposts * loan_years.
C25_RevenueIsAnnualFee ==
    (dcf.pc = "shown") =>
        LET in == dcf.in
            annual_fee_total == RMul(in.annual_fee_unit, in.num_outposts)
            lifetime_fee_total == RMul(annual_fee_total, R(in.loan_years))
        IN  /\ dcf.rows[1].Revenue = annual_fee_total
            /\ SimpleCashFlow(in) =
                   RSub(RAdd(annual_fee_total, in.annual_opex),
                        RMul(in.monthly_debt_payment, R(12)))
            /\ (in.revenue_growth_rate = R(0) /\ in.loan_years <= in.lifetime_years)
                   => RSum([i \in 1..in.loan_years |-> dcf.rows[i].Revenue])
                          = lifetime_fee_total

\* the sum of the Depreciation column of the detailed cash-flow table
DepreciationTotal == RSum([i \in 1..Len(dcf.rows) |-> dcf.rows[i].Depreciation])

\* C26: in the detailed cash-flow table depreciation is total_capex /
\* depreciation_period in each of the years 1..depreciation_period and 0 in
\* every later year; the widget keeps depreciation_period <= lifetime, so the
\* depreciation of the complete table sums to total_capex.
C26_StraightLineDepreciation ==
    (dcf.pc # "off") =>
        LET in == dcf.in
            total_capex == DcfTotalCapex(in)
        IN  /\ \A i \in 1..Len(dcf.rows) :
                  /\ dcf.rows[i].Year = i
                  /\ dcf.rows[i].Depreciation =
                         IF i <= in.depreciation_period
                         THEN RDiv(total_capex, R(in.depreciation_period))
                         ELSE R(0)
            /\ (dcf.pc \in {"payback", "shown"}) =>
                  /\ Len(dcf.rows) = in.lifetime_years
                  /\ DepreciationTotal = total_capex

\* a complete table whose last years come after the depreciation period
C26_Witness ==
    /\ dcf.pc = "shown"
    /\ dcf.in.depreciation_period = 2
    /\ dcf.in.lifetime_years = 3
    /\ Len(dcf.rows) = 3
    /\ dcf.rows[3].Depreciation = R(0)
    /\ dcf.rows[2].Depreciation = RDiv(DcfTotalCapex(dcf.in), R(2))

\* C27: in every year of the detailed cash-flow table taxes are tax_rate *
\* EBIT when EBIT > 0 and 0 otherwise, never negative, and FCFF = EBIT - taxes
\* + depreciation.
C27_TaxesAndFcff ==
    (dcf.pc # "off") =>
        \A i \in 1..Len(dcf.rows) :
            LET row == dcf.rows[i]
            IN  /\ row.EBIT[1] > 0 => row.Taxes = RMul(dcf.in.tax_rate, row.EBIT)
                /\ row.EBIT[1] <= 0 => row.Taxes = R(0)
                /\ row.Taxes[1] >= 0
                /\ row.FCFF = RAdd(RSub(row.EBIT, row.Taxes), row.Depreciation)

\* a table with a taxed year of positive EBIT and a year of negative EBIT
\* that pays no tax
C27_Witness ==
    /\ dcf.pc = "shown"
    /\ dcf.in.tax_rate = Frac(1, 4)
    /\ \E i, j \in 1..Len(dcf.rows) :
          /\ dcf.rows[i].EBIT[1] > 0
          /\ dcf.rows[i].Taxes[1] > 0
          /\ dcf.rows[j].EBIT[1] < 0
          /\ dcf.rows[j].Taxes = R(0)
          /\ dcf.rows[j].FCFF = RAdd(dcf.rows[j].EBIT, dcf.rows[j].Depreciation)

\* C29: for every input with outpost count > 0 the record calculate_os4p
\* returns is internally consistent: the capex_breakdown values sum to
\* total_capex, the opex_breakdown values sum to annual_opex, total_capex =
\* total_capex_per_outpost * num_outposts, annual_opex =
\* annual_opex_per_outpost * num_outposts, tco = total_capex + annual_opex *
\* loan_years, and tco_per_outpost * num_outposts = tco.
C29_RecordConsistent ==
    (IsDash /\ last.outcome = "ok" /\ Positive(last.args["num_outposts"]))
        => LET r == last.result
               n == last.args["num_outposts"]
           IN  /\ RAdd(r.capex_breakdown.Microgrid, r.capex_breakdown.Drones)
                     = r.total_capex
               /\ RAdd(RAdd(r.opex_breakdown.Maintenance,
                            r.opex_breakdown.Communications),
                       r.opex_breakdown.Security) = r.annual_opex
               /\ r.total_capex = RMul(r.total_capex_per_outpost, n)
               /\ r.annual_opex = RMul(r.annual_opex_per_outpost, n)
               /\ r.tco = RAdd(r.total_capex,
                               RMul(r.annual_opex, last.args["loan_years"]))
               /\ RMul(r.tco_per_outpost, n) = r.tco

\* a record for two outposts with both CAPEX parts and two OPEX parts
C29_Witness ==
    /\ IsDash
    /\ last.outcome = "ok"
    /\ last.args["num_outposts"] = R(2)
    /\ last.result.capex_breakdown.Microgrid = R(6)
    /\ last.result.capex_breakdown.Drones = R(2)
    /\ last.result.opex_breakdown.Maintenance = R(4)
    /\ last.result.opex_breakdown.Communications = R(2)
    /\ last.result.total_capex_per_outpost = R(4)
    /\ RLt(last.result.total_capex, last.result.tco)

\* what holds in every state of a session: while video_viewed is not True the
\* page holds nothing but the video and the Continue button and main is not
\* running (no params, no call); a run is in main only with the flag True
GateInvariant ==
    /\ session.video_viewed # "True" =>
          /\ session.shown \subseteq {"video", "button"}
          /\ session.pc # "main"
          /\ pc = "idle" /\ params = NoParams /\ last = NoCall
    /\ session.pc \notin {"start"} => session.video_viewed # "unset"
    /\ session.pc = "main" =>
          /\ session.video_viewed = "True"
          /\ session.shown = {"application"}

\* what holds of every step of a session: the flag is first set to False, by
\* the first run; it changes from False to True only, in a run that answers a
\* click on Continue; any other change is a new session starting with no
\* flag; a run that finds the flag True at line 17 goes on to main
GateStep ==
    /\ session'.video_viewed # session.video_viewed =>
          \/ /\ session.video_viewed = "unset"
             /\ session'.video_viewed = "False"
             /\ session.pc = "start"
          \/ /\ session.video_viewed = "False"
             /\ session'.video_viewed = "True"
             /\ session.pc = "button"
             /\ session.clicked
          \/ session' = NewSession
    /\ (session.pc = "branch" /\ session.video_viewed = "True") =>
          /\ session'.pc = "main"
          /\ session'.shown = {"application"}
    /\ (session.pc = "branch" /\ session.video_viewed = "False") =>
          /\ session'.pc = "button"
          /\ session'.shown = {"video"}

\* C30: in every session video_viewed starts False; as long as it is False a
\* script run only shows the video and the Continue button and never runs the
\* application (main); the only change ever made to the flag is False to True
\* when Continue is pressed, and once True it is never set back to False, so
\* every later run shows the application.
C30_VideoGate == [](GateInvariant) /\ [][GateStep]_vars

\* the application runs for the second time at least after Continue was
\* pressed: calculate_os4p has returned in a run that followed a later event
C30_Witness ==
    /\ session.pc = "main"
    /\ session.video_viewed = "True"
    /\ session.events >= 2
    /\ pc = "done"
    /\ last.outcome = "ok"

====
